---------------------------- MODULE Spec2Model ----------------------------
(***************************************************************************)
(* A model of the contract ABI codec (accounts/abi): the type parser       *)
(* NewType, the encoder Type.pack / Arguments.Pack, the decoder toGoType / *)
(* Arguments.Unpack, and the helpers they call.                            *)
(* After it, a model of the package accounts: the Manager with its update  *)
(* loop, the derivation path iterators, and TextHash.                      *)
(*                                                                         *)
(* Strings are sequences of one-character strings, so that parsing is      *)
(* something the model does.  Byte strings are sequences of 0..255.  A     *)
(* big.Int is a sign and a big-endian magnitude without leading zeros, so  *)
(* that 256-bit words keep their width.                                    *)
(***************************************************************************)
EXTENDS Integers, Sequences, FiniteSets, TLC

VARIABLES
    pc,        \* position of the driver: which call has been made
    typeStr,   \* NewType: the type string t
    typeInt,   \* NewType: the internalType string
    typeComps, \* NewType: the tuple components
    typeRes,   \* NewType: the result [err, typ]
    typeStr2,  \* a second type string, parsed with the same components
    typeRes2,  \* NewType's result for typeStr2
    argList,   \* Arguments: sequence of [Name, Type, Indexed]
    argVals,   \* the values handed to Arguments.Pack
    packed,    \* result of Arguments.Pack: [err, bytes]
    inData,    \* the bytes handed to Arguments.Unpack
    unpacked,  \* result of Arguments.Unpack: [err, vals, oob]
    inWord,    \* ReadInteger: the 32-byte word
    intRes,    \* ReadInteger: the result [err, val]
    usedSet,   \* ResolveNameConflict: the names in use
    rawIn,     \* ResolveNameConflict: the raw name
    resolved,  \* ResolveNameConflict: the result
    callerMap, \* UnpackIntoMap: the caller's map [isNil, entries]
    mapErr,    \* UnpackIntoMap: the error returned
    am,          \* the Manager: its fields backends, updaters, updates, wallets, feed, term
    updateLoop,  \* the goroutine am.update(): its position and its locals
    callers,     \* the goroutines calling AddBackend and Close: operation and position
    held,        \* the wallets each backend holds, in the order Wallets() reports them
    received,    \* history: the wallet events the update loop has taken from am.updates
    iterKind,    \* which iterator constructor was called
    iterBase,    \* the base path handed to the constructor
    iterPath,    \* the slice `path` the closure holds
    iterCalls,   \* per call of the closure, the value its result had at the return
    textData,    \* the message handed to TextHash and TextAndHash
    textRes      \* their results

vars == <<pc, typeStr, typeInt, typeComps, typeRes, typeStr2, typeRes2,
          argList, argVals, packed, inData, unpacked, inWord, intRes,
          usedSet, rawIn, resolved, callerMap, mapErr,
          am, updateLoop, callers, held, received,
          iterKind, iterBase, iterPath, iterCalls, textData, textRes>>

typeVars == <<typeStr, typeInt, typeComps, typeRes, typeStr2, typeRes2>>
codecVars == <<argList, argVals, packed, inData, unpacked>>
intVars == <<inWord, intRes>>
nameVars == <<usedSet, rawIn, resolved>>
mapVars == <<callerMap, mapErr>>
mgrVars == <<am, updateLoop, callers, held, received>>
iterVars == <<iterKind, iterBase, iterPath, iterCalls>>
textVars == <<textData, textRes>>
accountsVars == <<mgrVars, iterVars, textVars>>

\* the package accounts is not in use
AccountsIdle ==
    /\ am = <<>> /\ updateLoop = <<>> /\ callers = <<>> /\ held = <<>>
    /\ received = <<>>
    /\ iterKind = "" /\ iterBase = <<>> /\ iterPath = <<>> /\ iterCalls = <<>>
    /\ textData = <<>> /\ textRes = <<>>

(***************************************************************************)
(* Bounds of the model.                                                    *)
(***************************************************************************)
\* number of trailing bracket groups of a type string
MaxBrackets == 1
\* largest declared array size and largest slice length
MaxArrayLen == 2
\* arguments in an argument list beyond the first
MaxExtraArgs == 1
\* words of input handed to the decoder
MaxWords == 3
\* numeric suffixes ResolveNameConflict's callers have taken
MaxSuffix == 2

(***************************************************************************)
(* Characters and strings.                                                 *)
(***************************************************************************)
LowerChars == <<"a","b","c","d","e","f","g","h","i","j","k","l","m",
                "n","o","p","q","r","s","t","u","v","w","x","y","z">>
UpperChars == <<"A","B","C","D","E","F","G","H","I","J","K","L","M",
                "N","O","P","Q","R","S","T","U","V","W","X","Y","Z">>
DigitChars == <<"0","1","2","3","4","5","6","7","8","9">>

Range(s) == {s[i] : i \in DOMAIN s}

\* [a-zA-Z] of the regular expressions
AsciiLetters == Range(LowerChars) \cup Range(UpperChars)
\* [0-9]
Digits == Range(DigitChars)

\* strings.Count(s, c) for a one-character c
Count(s, c) == Cardinality({i \in DOMAIN s : s[i] = c})

\* strings.LastIndex(s, c) for a one-character c: a 1-based position, 0 for Go's -1
LastIndex(s, c) ==
    IF \E i \in DOMAIN s : s[i] = c
    THEN CHOOSE i \in DOMAIN s : s[i] = c /\ \A j \in DOMAIN s : s[j] = c => j <= i
    ELSE 0

\* strings.HasPrefix
HasPrefix(s, p) == Len(s) >= Len(p) /\ SubSeq(s, 1, Len(p)) = p

\* strings.ReplaceAll(s, c, "") for a one-character c
RemoveAll(s, c) == SelectSeq(s, LAMBDA x : x # c)

\* the end of the longest run of characters of set S that starts at position i
\* (i - 1 when s[i] is not in S)
RunEnd(s, i, S) ==
    IF i > Len(s) \/ s[i] \notin S THEN i - 1
    ELSE CHOOSE j \in i..Len(s) :
            /\ \A k \in i..j : s[k] \in S
            /\ (j = Len(s) \/ s[j + 1] \notin S)

DigitVal(c) == (CHOOSE d \in 1..10 : DigitChars[d] = c) - 1

\* strconv.Atoi on a string the callers already know to be made of digits or
\* of digits, "x", digits: [ok, n]
RECURSIVE AtoiFrom(_, _, _)
AtoiFrom(s, i, acc) ==
    IF i > Len(s) THEN acc
    ELSE AtoiFrom(s, i + 1, acc * 10 + DigitVal(s[i]))

Atoi(s) ==
    IF s # <<>> /\ \A i \in DOMAIN s : s[i] \in Digits
    THEN [ok |-> TRUE, n |-> AtoiFrom(s, 1, 0)]
    ELSE [ok |-> FALSE, n |-> 0]

\* fmt.Sprintf("%d", n) for n >= 0
RECURSIVE Itoa(_)
Itoa(n) ==
    IF n < 10 THEN <<DigitChars[n + 1]>>
    ELSE Itoa(n \div 10) \o <<DigitChars[(n % 10) + 1]>>

\* strings.ToUpper on one character
ToUpper(c) ==
    IF c \in Range(LowerChars)
    THEN UpperChars[CHOOSE i \in 1..26 : LowerChars[i] = c]
    ELSE c

(***************************************************************************)
(* Names: ToCamelCase, isValidFieldName, ResolveNameConflict.              *)
(***************************************************************************)
\* ToCamelCase: split at "_", upper-case the first character of every
\* non-empty part, join without separator
RECURSIVE camelFrom(_, _, _)
camelFrom(input, i, atStart) ==
    IF i > Len(input) THEN <<>>
    ELSE IF input[i] = "_" THEN camelFrom(input, i + 1, TRUE)
    ELSE <<IF atStart THEN ToUpper(input[i]) ELSE input[i]>>
            \o camelFrom(input, i + 1, FALSE)

ToCamelCase(input) == camelFrom(input, 1, TRUE)

\* isLetter, for the ASCII characters the model's names are made of
isLetter(ch) == ch \in AsciiLetters \/ ch = "_"

isValidFieldName(fieldName) ==
    /\ Len(fieldName) > 0
    /\ isLetter(fieldName[1])
    /\ \A i \in DOMAIN fieldName : isLetter(fieldName[i]) \/ fieldName[i] \in Digits

\* the loop of ResolveNameConflict: for idx := 0; ok; idx++
RECURSIVE resolveLoop(_, _, _)
resolveLoop(rawName, usedNames, idx) ==
    LET name == rawName \o Itoa(idx)
    IN IF name \in usedNames THEN resolveLoop(rawName, usedNames, idx + 1) ELSE name

\* a slip of the loop: it leaves at the first suffix whether or not it is free
ResolveNameConflictFirstSuffix(rawName, usedNames) ==
    IF rawName \in usedNames THEN rawName \o Itoa(0) ELSE rawName

\* ResolveNameConflict(rawName, used), used(s) being s \in usedNames
ResolveNameConflict(rawName, usedNames) ==
    IF rawName \in usedNames THEN resolveLoop(rawName, usedNames, 0) ELSE rawName

(***************************************************************************)
(* The type model.  Elem is a sequence of zero or one Type (Go's *Type).   *)
(***************************************************************************)
\* Type{}: the zero value (T = 0 is IntTy)
ZeroType ==
    [T |-> "IntTy", Size |-> 0, Elem |-> <<>>, stringKind |-> <<>>,
     TupleRawName |-> <<>>, TupleElems |-> <<>>, TupleRawNames |-> <<>>,
     TupleFields |-> <<>>]

TypeFail(e) == [err |-> e, typ |-> ZeroType]
TypeOk(typ) == [err |-> "", typ |-> typ]

S_int == <<"i","n","t">>
S_uint == <<"u","i","n","t">>
S_bool == <<"b","o","o","l">>
S_address == <<"a","d","d","r","e","s","s">>
S_string == <<"s","t","r","i","n","g">>
S_bytes == <<"b","y","t","e","s">>
S_tuple == <<"t","u","p","l","e">>
S_function == <<"f","u","n","c","t","i","o","n">>
S_structPrefix == <<"s","t","r","u","c","t"," ">>
S_contractPrefix == <<"c","o","n","t","r","a","c","t"," ">>

\* typeRegex.FindAllStringSubmatch(t, -1)[0] for
\* ([a-zA-Z]+)(([0-9]+)(x([0-9]+))?)? : the leftmost match, each part greedy.
\* m0 the whole match, m1 the letters, m2 the size part, m3 its leading digits
typeRegexMatch(t) ==
    IF \A i \in DOMAIN t : t[i] \notin AsciiLetters
    THEN [ok |-> FALSE, m0 |-> <<>>, m1 |-> <<>>, m2 |-> <<>>, m3 |-> <<>>]
    ELSE LET p == CHOOSE i \in DOMAIN t :
                    t[i] \in AsciiLetters /\ \A j \in 1..(i - 1) : t[j] \notin AsciiLetters
             e1 == RunEnd(t, p, AsciiLetters)
             e3 == RunEnd(t, e1 + 1, Digits)
             hasx == /\ e3 > e1
                     /\ e3 + 1 <= Len(t)
                     /\ t[e3 + 1] = "x"
                     /\ RunEnd(t, e3 + 2, Digits) > e3 + 1
             e5 == IF hasx THEN RunEnd(t, e3 + 2, Digits) ELSE e3
         IN [ok |-> TRUE, m0 |-> SubSeq(t, p, e5), m1 |-> SubSeq(t, p, e1),
             m2 |-> SubSeq(t, e1 + 1, e5), m3 |-> SubSeq(t, e1 + 1, e3)]

\* sliceSizeRegex.FindAllString(s, -1) for [0-9]+ : the maximal runs of digits
RECURSIVE digitRunsFrom(_, _)
digitRunsFrom(s, i) ==
    IF i > Len(s) THEN <<>>
    ELSE IF s[i] \notin Digits THEN digitRunsFrom(s, i + 1)
    ELSE LET e == RunEnd(s, i, Digits)
         IN <<SubSeq(s, i, e)>> \o digitRunsFrom(s, e + 1)

sliceSizeRegexFindAll(s) == digitRunsFrom(s, 1)

RECURSIVE NewType(_, _, _)
RECURSIVE newTypeTuple(_, _, _)

\* the tuple case's loop over the components; acc holds fields, elems, names,
\* expression and used as the loop has left them before component idx
newTypeTuple(components, idx, acc) ==
    IF idx > Len(components) THEN [err |-> "", acc |-> acc]
    ELSE
      LET c == components[idx]
          cr == NewType(c.Type, c.InternalType, c.Components)
          name == ToCamelCase(c.Name)
          fieldName == ResolveNameConflict(name, acc.used)
      IN IF cr.err # "" THEN [err |-> cr.err, acc |-> acc]
         ELSE IF name = <<>>
         THEN [err |-> "abi: purely anonymous or underscored field is not supported",
               acc |-> acc]
         ELSE IF ~isValidFieldName(fieldName)
         THEN [err |-> "field has invalid name", acc |-> acc]
         ELSE newTypeTuple(components, idx + 1,
                [fields |-> Append(acc.fields, fieldName),
                 elems |-> Append(acc.elems, cr.typ),
                 names |-> Append(acc.names, c.Name),
                 expression |-> acc.expression \o cr.typ.stringKind
                                \o (IF idx # Len(components) THEN <<",">> ELSE <<>>),
                 used |-> acc.used \cup {fieldName}])

\* a slip of the tuple case: the type keeps the string it was given
tupleStringKindKeepsInput(t, expression) == t

\* the tuple case's canonical string: expression += ")"; typ.stringKind = expression
tupleStringKind(t, expression) == expression \o <<")">>

\* the elementary part of NewType: t holds no bracket
newTypeElementary(t, internalType, components) ==
    LET m == typeRegexMatch(t)
        conv == Atoi(m.m2)
        varSize == IF Len(m.m3) > 0 THEN conv.n ELSE 0
        typ == [ZeroType EXCEPT !.stringKind = t]
    IN
    IF ~m.ok THEN TypeFail("invalid type")
    ELSE IF Len(m.m3) > 0 /\ ~conv.ok THEN TypeFail("abi: error parsing variable size")
    ELSE IF Len(m.m3) = 0 /\ (m.m0 = S_uint \/ m.m0 = S_int)
    THEN TypeFail("unsupported arg type")
    ELSE IF m.m1 = S_int THEN TypeOk([typ EXCEPT !.Size = varSize, !.T = "IntTy"])
    ELSE IF m.m1 = S_uint THEN TypeOk([typ EXCEPT !.Size = varSize, !.T = "UintTy"])
    ELSE IF m.m1 = S_bool THEN TypeOk([typ EXCEPT !.T = "BoolTy"])
    ELSE IF m.m1 = S_address THEN TypeOk([typ EXCEPT !.Size = 20, !.T = "AddressTy"])
    ELSE IF m.m1 = S_string THEN TypeOk([typ EXCEPT !.T = "StringTy"])
    ELSE IF m.m1 = S_bytes
    THEN IF varSize = 0 THEN TypeOk([typ EXCEPT !.T = "BytesTy"])
         ELSE IF varSize > 32 THEN TypeFail("unsupported arg type")
         ELSE TypeOk([typ EXCEPT !.T = "FixedBytesTy", !.Size = varSize])
    ELSE IF m.m1 = S_tuple
    THEN LET r == newTypeTuple(components, 1,
                    [fields |-> <<>>, elems |-> <<>>, names |-> <<>>,
                     expression |-> <<"(">>, used |-> {}])
         IN IF r.err # "" THEN TypeFail(r.err)
            ELSE TypeOk([typ EXCEPT
                    !.TupleFields = r.acc.fields,
                    !.TupleElems = r.acc.elems,
                    !.TupleRawNames = r.acc.names,
                    !.T = "TupleTy",
                    !.stringKind = tupleStringKind(t, r.acc.expression),
                    !.TupleRawName =
                        IF internalType # <<>> /\ HasPrefix(internalType, S_structPrefix)
                        THEN RemoveAll(SubSeq(internalType, Len(S_structPrefix) + 1,
                                              Len(internalType)), ".")
                        ELSE <<>>])
    ELSE IF m.m1 = S_function THEN TypeOk([typ EXCEPT !.T = "FunctionTy", !.Size = 24])
    ELSE IF HasPrefix(internalType, S_contractPrefix)
    THEN TypeOk([typ EXCEPT !.Size = 20, !.T = "AddressTy"])
    ELSE TypeFail("unsupported arg type")

\* NewType(t, internalType, components)
NewType(t, internalType, components) ==
    IF Count(t, "[") # Count(t, "]") THEN TypeFail("invalid arg type in abi")
    ELSE IF Count(t, "[") # 0
    THEN LET li == LastIndex(internalType, "[")
             subInternal == IF li # 0 THEN SubSeq(internalType, 1, li - 1)
                            ELSE internalType
             i == LastIndex(t, "[")
             emb == NewType(SubSeq(t, 1, i - 1), subInternal, components)
             sliced == SubSeq(t, i, Len(t))
             intz == sliceSizeRegexFindAll(sliced)
         IN IF emb.err # "" THEN TypeFail(emb.err)
            ELSE IF Len(intz) = 0
            THEN TypeOk([ZeroType EXCEPT !.T = "SliceTy", !.Elem = <<emb.typ>>,
                                         !.stringKind = emb.typ.stringKind \o sliced])
            ELSE IF Len(intz) = 1
            THEN TypeOk([ZeroType EXCEPT !.T = "ArrayTy", !.Elem = <<emb.typ>>,
                                         !.Size = Atoi(intz[1]).n,
                                         !.stringKind = emb.typ.stringKind \o sliced])
            ELSE TypeFail("invalid formatting of array type")
    ELSE newTypeElementary(t, internalType, components)

\* Type.String
String(t) == t.stringKind

(***************************************************************************)
(* Bytes and big integers.  A magnitude is a big-endian byte string        *)
(* without leading zero bytes; a big.Int is [neg, mag].                    *)
(***************************************************************************)
Zeros(n) == [i \in 1..n |-> 0]

\* the magnitude of big.Int.SetBytes(b): b without its leading zero bytes
Strip(b) ==
    IF \A i \in DOMAIN b : b[i] = 0 THEN <<>>
    ELSE SubSeq(b, CHOOSE i \in DOMAIN b : b[i] # 0 /\ \A j \in 1..(i - 1) : b[j] = 0,
                Len(b))

\* the k-th byte of a magnitude counted from its low end, k = 0 the lowest
LowByte(a, k) == IF k < Len(a) THEN a[Len(a) - k] ELSE 0

\* big.Int.Cmp on magnitudes: -1, 0 or 1
natCmp(a, b) ==
    IF Len(a) # Len(b) THEN (IF Len(a) < Len(b) THEN -1 ELSE 1)
    ELSE IF a = b THEN 0
    ELSE LET i == CHOOSE k \in DOMAIN a : a[k] # b[k] /\ \A j \in 1..(k - 1) : a[j] = b[j]
         IN IF a[i] < b[i] THEN -1 ELSE 1

\* the carry into byte k of a + b, gen being the bytes whose sum overflows: a
\* lower byte overflows and every byte between passes the carry on
addCarry(a, b, gen, k) ==
    IF \E j \in gen :
            j < k /\ \A m \in (j + 1)..(k - 1) : LowByte(a, m) + LowByte(b, m) = 255
    THEN 1 ELSE 0

\* a + b as n bytes
addBytes(a, b, gen, n) ==
    [i \in 1..n |->
        (LowByte(a, n - i) + LowByte(b, n - i) + addCarry(a, b, gen, n - i)) % 256]

\* a + b on magnitudes
natAdd(a, b) ==
    LET n == (IF Len(a) > Len(b) THEN Len(a) ELSE Len(b)) + 1
    IN Strip(addBytes(a, b, {j \in 0..(n - 1) : LowByte(a, j) + LowByte(b, j) >= 256}, n))

\* the borrow from byte k of a - b, gen being the bytes where a's is smaller:
\* a lower byte borrows and every byte between is equal
subBorrow(a, b, gen, k) ==
    IF \E j \in gen : j < k /\ \A m \in (j + 1)..(k - 1) : LowByte(a, m) = LowByte(b, m)
    THEN 1 ELSE 0

\* a - b as n bytes
subBytes(a, b, gen, n) ==
    [i \in 1..n |->
        (LowByte(a, n - i) - LowByte(b, n - i) - subBorrow(a, b, gen, n - i) + 256) % 256]

\* a - b on magnitudes, for a >= b
natSub(a, b) ==
    Strip(subBytes(a, b, {j \in 0..(Len(a) - 1) : LowByte(a, j) < LowByte(b, j)}, Len(a)))

Big(neg, mag) == [neg |-> neg /\ mag # <<>>, mag |-> mag]

\* new(big.Int).SetBytes(b)
SetBytes(b) == Big(FALSE, Strip(b))

\* big.Int.Neg
bigNeg(x) == Big(~x.neg, x.mag)

\* big.Int.Add
bigAdd(x, y) ==
    IF x.neg = y.neg THEN Big(x.neg, natAdd(x.mag, y.mag))
    ELSE IF natCmp(x.mag, y.mag) >= 0 THEN Big(x.neg, natSub(x.mag, y.mag))
    ELSE Big(y.neg, natSub(y.mag, x.mag))

\* the number of bits of one byte
ByteBitLen(b) == IF b = 0 THEN 0 ELSE CHOOSE k \in 1..8 : 2^(k - 1) <= b /\ b < 2^k

\* big.Int.BitLen
BitLen(mag) == IF mag = <<>> THEN 0 ELSE 8 * (Len(mag) - 1) + ByteBitLen(mag[1])

\* big.Int.Bit(i) of a non-negative x
Bit(x, i) == (LowByte(x.mag, i \div 8) \div 2^(i % 8)) % 2

\* big.Int.IsUint64
IsUint64(x) == ~x.neg /\ BitLen(x.mag) <= 64

\* 2^63 as a magnitude
Pow63 == <<128>> \o Zeros(7)

\* big.Int.IsInt64
IsInt64(x) ==
    IF x.neg THEN natCmp(x.mag, Pow63) <= 0 ELSE BitLen(x.mag) <= 63

\* the value of a magnitude the caller has bounded by a length of the input
\* (int(x.Uint64()) in the source)
RECURSIVE natToIntFrom(_, _, _)
natToIntFrom(a, i, acc) ==
    IF i > Len(a) THEN acc ELSE natToIntFrom(a, i + 1, acc * 256 + a[i])

natToInt(a) == natToIntFrom(a, 1, 0)

\* the magnitude of big.NewInt(n) for n >= 0
natOfInt(n) ==
    Strip(<<n \div 16777216, (n \div 65536) % 256, (n \div 256) % 256, n % 256>>)

\* MaxUint256 = 2^256 - 1
MaxUint256 == Big(FALSE, [i \in 1..32 |-> 255])

\* common.LeftPadBytes(b, l)
LeftPadBytes(b, l) == IF l <= Len(b) THEN b ELSE Zeros(l - Len(b)) \o b

\* common.RightPadBytes(b, l)
RightPadBytes(b, l) == IF l <= Len(b) THEN b ELSE b \o Zeros(l - Len(b))

\* a slip of the two's complement: the magnitude is written for a negative value
U256BytesMagnitude(x) ==
    LeftPadBytes(IF Len(x.mag) > 32 THEN SubSeq(x.mag, Len(x.mag) - 31, Len(x.mag))
                 ELSE x.mag, 32)

\* math.U256Bytes(x): x mod 2^256 as 32 big-endian bytes, two's complement for x < 0
U256Bytes(x) ==
    LET low == IF Len(x.mag) > 32 THEN Strip(SubSeq(x.mag, Len(x.mag) - 31, Len(x.mag)))
               ELSE x.mag
    IN IF x.neg /\ low # <<>>
       THEN LeftPadBytes(natAdd(natSub(MaxUint256.mag, low), <<1>>), 32)
       ELSE LeftPadBytes(low, 32)

\* common.BytesToAddress(b): the last 20 bytes of b, left-padded to 20
BytesToAddress(b) ==
    IF Len(b) > 20 THEN SubSeq(b, Len(b) - 19, Len(b)) ELSE LeftPadBytes(b, 20)

\* a Go slice expression s[a:b] is in range (it panics otherwise)
InRange(s, a, b) == 0 <= a /\ a <= b /\ b <= Len(s)

\* s[a:b] with Go's 0-based bounds
Slice(s, a, b) == SubSeq(s, a + 1, b)

\* a Go map[string]any: nil, or its entries as a function of the keys
NilMap == [isNil |-> TRUE, entries |-> <<>>]
MakeMap(entries) == [isNil |-> FALSE, entries |-> entries]

(***************************************************************************)
(* Inputs of the type parser: type strings as callers write them, in       *)
(* several formattings, and component lists.                               *)
(***************************************************************************)
\* ArgumentMarshaling
Marshaling(name, type, components) ==
    [Name |-> name, Type |-> type, InternalType |-> <<>>,
     Components |-> components, Indexed |-> FALSE]

BaseStrings ==
    { S_uint \o <<"8">>, S_uint \o <<"0","8">>, S_uint \o <<"7">>,
      S_uint \o <<"2","4">>, S_uint \o <<"6","4">>, S_uint \o <<"2","5","6">>,
      S_uint \o <<"2","6","4">>, S_uint,
      S_int \o <<"8">>, S_int \o <<"0">>, S_int \o <<"1","2","8">>,
      S_bool, S_address, S_string, S_function, S_tuple,
      S_bytes, S_bytes \o <<"0">>, S_bytes \o <<"3">>, S_bytes \o <<"3","2">>,
      S_bytes \o <<"3","3">>,
      <<"f","i","x","e","d","1","2","8","x","1","8">>,
      <<"I","F","o","o">>, S_uint \o <<"8","[">>, <<"2","5","6">> }

Formats == {"plain", "lead", "trail", "inner"}

\* one bracket group: n = -1 is "[]", n >= 0 is "[n]"; "inner" pads the number
BracketGroup(n, f) ==
    IF n = -1 THEN <<"[", "]">>
    ELSE IF f = "inner" THEN <<"[", " ">> \o Itoa(n) \o <<" ", "]">>
    ELSE <<"[">> \o Itoa(n) \o <<"]">>

RECURSIVE BracketGroups(_, _)
BracketGroups(ns, f) ==
    IF ns = <<>> THEN <<>>
    ELSE BracketGroup(Head(ns), f) \o BracketGroups(Tail(ns), f)

\* the type string for a base, its bracket groups and a formatting
Render(base, ns, f) ==
    (IF f = "lead" THEN <<" ">> ELSE <<>>) \o base
        \o (IF f = "trail" THEN <<" ">> ELSE <<>>) \o BracketGroups(ns, f)

BracketSeqs == UNION {[1..n -> (-1)..MaxArrayLen] : n \in 0..MaxBrackets}

ComponentLists ==
    { <<>>,
      <<Marshaling(<<"a">>, S_uint \o <<"2","5","6">>, <<>>),
        Marshaling(<<"b">>, S_string, <<>>)>>,
      <<Marshaling(<<"a","_","b">>, S_uint \o <<"8"," ">>, <<>>),
        Marshaling(<<"a","B">>, S_bool, <<>>)>>,
      <<Marshaling(<<"t">>, S_tuple \o <<"[","0","]">>,
                   <<Marshaling(<<"x">>, S_uint \o <<"7">>, <<>>)>>)>>,
      <<Marshaling(<<"_">>, S_bool, <<>>)>>,
      <<Marshaling(<<"p">>, S_tuple,
                   <<Marshaling(<<"q">>, S_string \o <<"[","1","]">>, <<>>)>>),
        Marshaling(<<"r">>, S_bool, <<>>)>>,
      <<Marshaling(<<"a","B","0">>, S_bool, <<>>),
        Marshaling(<<"a","_","b">>, S_bool, <<>>),
        Marshaling(<<"a","B">>, S_address, <<>>)>> }

InternalTypes ==
    { <<>>, S_structPrefix \o <<"A",".","B">>, S_contractPrefix \o <<"I","F","o","o">> }

(***************************************************************************)
(* SpecType: the caller parses two formattings of a type string.           *)
(***************************************************************************)
NoType == TypeFail("not called")

InitType ==
    /\ pc = "start"
    /\ \E base \in BaseStrings, ns \in BracketSeqs, f1 \in Formats, f2 \in Formats :
          /\ typeStr = Render(base, ns, f1)
          /\ typeStr2 = Render(base, ns, f2)
    /\ typeInt \in InternalTypes
    /\ typeComps \in ComponentLists
    /\ typeRes = NoType
    /\ typeRes2 = NoType
    /\ argList = <<>> /\ argVals = <<>> /\ inData = <<>>
    /\ packed = [err |-> "not called", bytes |-> <<>>]
    /\ unpacked = [err |-> "not called", vals |-> <<>>, oob |-> FALSE]
    /\ inWord = <<>> /\ intRes = [err |-> "not called", val |-> <<>>]
    /\ callerMap = NilMap /\ mapErr = "not called"
    /\ AccountsIdle
    /\ usedSet = {} /\ rawIn = <<>> /\ resolved = <<>>

\* abi.NewType(t, internalType, components), called for both strings
DoNewType ==
    /\ pc = "start"
    /\ typeRes' = NewType(typeStr, typeInt, typeComps)
    /\ typeRes2' = NewType(typeStr2, typeInt, typeComps)
    /\ pc' = "parsed"
    /\ UNCHANGED <<typeStr, typeInt, typeComps, typeStr2>>
    /\ UNCHANGED <<codecVars, intVars, nameVars, mapVars, accountsVars>>

NextType == DoNewType

SpecType == InitType /\ [][NextType]_vars

(***************************************************************************)
(* SpecName: a caller resolves a raw name against the names in use and     *)
(* registers the result, as NewType's tuple loop does with used[].         *)
(***************************************************************************)
S_send == <<"s","e","n","d">>

RawNames == {S_send, <<"A","B">>}

NamePool == RawNames \cup {n \o Itoa(k) : n \in RawNames, k \in 0..MaxSuffix}

InitName ==
    /\ pc = "start"
    /\ rawIn \in RawNames
    /\ usedSet \in SUBSET NamePool
    /\ resolved = <<>>
    /\ typeStr = <<>> /\ typeStr2 = <<>> /\ typeInt = <<>> /\ typeComps = <<>>
    /\ typeRes = NoType /\ typeRes2 = NoType
    /\ argList = <<>> /\ argVals = <<>> /\ inData = <<>>
    /\ packed = [err |-> "not called", bytes |-> <<>>]
    /\ unpacked = [err |-> "not called", vals |-> <<>>, oob |-> FALSE]
    /\ inWord = <<>> /\ intRes = [err |-> "not called", val |-> <<>>]
    /\ callerMap = NilMap /\ mapErr = "not called"
    /\ AccountsIdle

\* fieldName := ResolveNameConflict(name, func(s string) bool { return used[s] })
DoResolve ==
    /\ pc = "start"
    /\ resolved' = ResolveNameConflict(rawIn, usedSet)
    /\ pc' = "resolved"
    /\ UNCHANGED <<usedSet, rawIn, typeVars, codecVars, intVars, mapVars, accountsVars>>

\* used[fieldName] = true, and the caller goes on to its next name; the names
\* stay within NamePool
Register ==
    /\ pc = "resolved"
    /\ resolved \in NamePool
    /\ usedSet' = usedSet \cup {resolved}
    /\ rawIn' \in RawNames
    /\ resolved' = <<>>
    /\ pc' = "start"
    /\ UNCHANGED <<typeVars, codecVars, intVars, mapVars, accountsVars>>

NextName == DoResolve \/ Register

SpecName == InitName /\ [][NextName]_vars

(***************************************************************************)
(* Claims about the type parser and the name resolver.                     *)
(***************************************************************************)
RECURSIVE TypeSizesValid(_)
TypeSizesValid(t) ==
    /\ t.T = "ArrayTy" => t.Size > 0
    /\ t.T = "FixedBytesTy" => t.Size \in 1..32
    /\ t.T \in {"IntTy", "UintTy"} => t.Size \in {8 * k : k \in 1..32}
    /\ \A i \in DOMAIN t.Elem : TypeSizesValid(t.Elem[i])
    /\ \A i \in DOMAIN t.TupleElems : TypeSizesValid(t.TupleElems[i])

\* C7: every Type tree NewType returns without error has, at every node, a
\* fixed Array of Size > 0, a FixedBytes of Size 1..32 and an integer of Size
\* 8, 16, ..., 256.
C7_TypeSizeInvariant ==
    (pc = "parsed" /\ typeRes.err = "") => TypeSizesValid(typeRes.typ)

\* the type tree without the canonical strings
RECURSIVE Shape(_)
Shape(t) ==
    [t EXCEPT !.stringKind = <<>>,
              !.Elem = [i \in DOMAIN t.Elem |-> Shape(t.Elem[i])],
              !.TupleElems = [i \in DOMAIN t.TupleElems |-> Shape(t.TupleElems[i])]]

\* the type below all Array and Slice nodes
RECURSIVE Innermost(_)
Innermost(t) == IF t.Elem = <<>> THEN t ELSE Innermost(t.Elem[1])

\* the text of a type string from its first "[" on
BracketText(s) ==
    IF Count(s, "[") = 0 THEN <<>>
    ELSE SubSeq(s, CHOOSE i \in DOMAIN s :
                        s[i] = "[" /\ \A j \in 1..(i - 1) : s[j] # "[", Len(s))

BothParsed == pc = "parsed" /\ typeRes.err = "" /\ typeRes2.err = ""

\* C8 as stated: two accepted type strings that resolve to the same type tree
\* (differing only in whitespace or formatting) have the same canonical string.
C8_SameTreeSameString ==
    (BothParsed /\ Shape(typeRes.typ) = Shape(typeRes2.typ))
        => String(typeRes.typ) = String(typeRes2.typ)

\* "(" s1 "," ... "," sk ")" for the canonical strings of the fields
RECURSIVE JoinFields(_, _)
JoinFields(elems, i) ==
    IF i > Len(elems) THEN <<>>
    ELSE String(elems[i]) \o (IF i < Len(elems) THEN <<",">> ELSE <<>>)
            \o JoinFields(elems, i + 1)

\* C8 amended: the canonical string of a tuple is rebuilt from the canonical
\* strings of its components and not from the input, so two accepted strings
\* for a tuple (or arrays and slices of one) whose bracket groups are the same
\* text have the same canonical string, whatever surrounds the tuple keyword.
C8_TupleStringRebuilt ==
    (BothParsed /\ Innermost(typeRes.typ).T = "TupleTy"
                /\ Innermost(typeRes2.typ).T = "TupleTy")
        => /\ String(Innermost(typeRes.typ))
                = <<"(">> \o JoinFields(Innermost(typeRes.typ).TupleElems, 1) \o <<")">>
           /\ BracketText(typeStr) = BracketText(typeStr2)
                => String(typeRes.typ) = String(typeRes2.typ)

\* two different inputs for a tuple with fields, parsed to one canonical string
C8_Witness ==
    /\ BothParsed
    /\ typeStr # typeStr2
    /\ typeRes.typ.T = "TupleTy" /\ typeRes2.typ.T = "TupleTy"
    /\ Len(typeRes.typ.TupleElems) = 2
    /\ String(typeRes.typ) = String(typeRes2.typ)

\* C9: with "send" and "send1" in use, ResolveNameConflict("send", used)
\* returns "send2".
C9_DocExample ==
    (pc = "resolved" /\ rawIn = S_send /\ usedSet = {S_send, S_send \o <<"1">>})
        => resolved = S_send \o <<"2">>

(***************************************************************************)
(* Go values, as reflect sees them.  kind is the reflect.Kind ("ptr" is    *)
(* *big.Int); ek is the kind of the element type of a slice or array; a    *)
(* slice or array of bytes keeps its bytes in bs, any other its elements   *)
(* in elems; a struct keeps its field names in names.                      *)
(***************************************************************************)
ZeroValue ==
    [kind |-> "invalid", ek |-> "", neg |-> FALSE, mag |-> <<>>, flag |-> FALSE,
     bs |-> <<>>, names |-> <<>>, elems |-> <<>>]

VInt(kind, x) == [ZeroValue EXCEPT !.kind = kind, !.neg = x.neg, !.mag = x.mag]
VBool(b) == [ZeroValue EXCEPT !.kind = "bool", !.flag = b]
VString(b) == [ZeroValue EXCEPT !.kind = "string", !.bs = b]
VBytes(kind, b) == [ZeroValue EXCEPT !.kind = kind, !.ek = "uint8", !.bs = b]
VStruct(names, elems) == [ZeroValue EXCEPT !.kind = "struct", !.names = names, !.elems = elems]

\* a slice or array of the given elements
VList(kind, ek, elems) ==
    IF ek = "uint8"
    THEN VBytes(kind, [i \in DOMAIN elems |-> natToInt(elems[i].mag)])
    ELSE [ZeroValue EXCEPT !.kind = kind, !.ek = ek, !.elems = elems]

\* the big.Int an integer value holds
BigOf(v) == Big(v.neg, v.mag)

\* reflect.Value.Len
valLen(v) == IF v.ek = "uint8" \/ v.kind = "string" THEN Len(v.bs) ELSE Len(v.elems)

\* reflect.Value.Index(i), i counted from 0
valIndex(v, i) ==
    IF v.ek = "uint8" THEN VInt("uint8", Big(FALSE, Strip(<<v.bs[i + 1]>>)))
    ELSE v.elems[i + 1]

\* reflectIntType(unsigned, size).Kind()
reflectIntType(unsigned, size) ==
    CASE size = 8 -> IF unsigned THEN "uint8" ELSE "int8"
      [] size = 16 -> IF unsigned THEN "uint16" ELSE "int16"
      [] size = 32 -> IF unsigned THEN "uint32" ELSE "int32"
      [] size = 64 -> IF unsigned THEN "uint64" ELSE "int64"
      [] OTHER -> "ptr"

\* Type.GetType().Kind()
GetTypeKind(t) ==
    CASE t.T = "IntTy" -> reflectIntType(FALSE, t.Size)
      [] t.T = "UintTy" -> reflectIntType(TRUE, t.Size)
      [] t.T = "BoolTy" -> "bool"
      [] t.T = "StringTy" -> "string"
      [] t.T = "SliceTy" -> "slice"
      [] t.T = "ArrayTy" -> "array"
      [] t.T = "TupleTy" -> "struct"
      [] t.T = "AddressTy" -> "array"
      [] t.T = "FixedBytesTy" -> "array"
      [] t.T = "BytesTy" -> "slice"
      [] t.T = "FunctionTy" -> "array"

(***************************************************************************)
(* Dynamic classification and head sizes.                                  *)
(***************************************************************************)
\* Type.requiresLengthPrefix
requiresLengthPrefix(t) == t.T = "StringTy" \/ t.T = "BytesTy" \/ t.T = "SliceTy"

\* a slip of isDynamicType: a tuple is never looked into
isDynamicTypeFlatTuple(t) ==
    \/ t.T = "StringTy" \/ t.T = "BytesTy" \/ t.T = "SliceTy"
    \/ (t.T = "ArrayTy" /\ t.Elem[1].T \in {"StringTy", "BytesTy", "SliceTy"})

RECURSIVE isDynamicType(_)
isDynamicType(t) ==
    IF t.T = "TupleTy"
    THEN \E i \in DOMAIN t.TupleElems : isDynamicType(t.TupleElems[i])
    ELSE \/ t.T = "StringTy" \/ t.T = "BytesTy" \/ t.T = "SliceTy"
         \/ (t.T = "ArrayTy" /\ isDynamicType(t.Elem[1]))

RECURSIVE SumSizes(_, _)
RECURSIVE getTypeSize(_)

\* total += getTypeSize(*elem) over elems[i..]
SumSizes(elems, i) ==
    IF i > Len(elems) THEN 0 ELSE getTypeSize(elems[i]) + SumSizes(elems, i + 1)

getTypeSize(t) ==
    IF t.T = "ArrayTy" /\ ~isDynamicType(t.Elem[1])
    THEN IF t.Elem[1].T = "ArrayTy" \/ t.Elem[1].T = "TupleTy"
         THEN t.Size * getTypeSize(t.Elem[1])
         ELSE t.Size * 32
    ELSE IF t.T = "TupleTy" /\ ~isDynamicType(t)
    THEN SumSizes(t.TupleElems, 1)
    ELSE 32

(***************************************************************************)
(* typeCheck and sliceTypeCheck: "" when the value passes.                 *)
(***************************************************************************)
RECURSIVE sliceTypeCheck(_, _)
sliceTypeCheck(t, val) ==
    IF val.kind # "slice" /\ val.kind # "array" THEN "abi: cannot use value as type"
    ELSE IF t.T = "ArrayTy" /\ valLen(val) # t.Size THEN "abi: cannot use value as type"
    ELSE IF (t.Elem[1].T = "SliceTy" \/ t.Elem[1].T = "ArrayTy") /\ valLen(val) > 0
    THEN sliceTypeCheck(t.Elem[1], valIndex(val, 0))
    ELSE IF val.ek # GetTypeKind(t.Elem[1]) THEN "abi: cannot use value as type"
    ELSE ""

typeCheck(t, value) ==
    IF t.T = "SliceTy" \/ t.T = "ArrayTy" THEN sliceTypeCheck(t, value)
    ELSE IF GetTypeKind(t) # value.kind THEN "abi: cannot use value as type"
    ELSE IF t.T = "FixedBytesTy" /\ t.Size # valLen(value)
    THEN "abi: cannot use value as type"
    ELSE ""

(***************************************************************************)
(* The encoder.  A result is [err, bytes]; err = "" is success.            *)
(***************************************************************************)
PackOk(b) == [err |-> "", bytes |-> b]
PackFail(e) == [err |-> e, bytes |-> <<>>]

errInvalidSign == "abi: negatively-signed value cannot be packed into uint parameter"

UintKinds == {"uint", "uint8", "uint16", "uint32", "uint64"}
IntKinds == {"int", "int8", "int16", "int32", "int64"}

\* reflect.ValueOf(n) for a Go int n >= 0
VGoInt(n) == VInt("int", Big(FALSE, natOfInt(n)))

\* packNum(value); it panics on a kind that is no integer
packNum(value) ==
    IF value.kind \in UintKinds THEN U256Bytes(Big(FALSE, value.mag))
    ELSE U256Bytes(BigOf(value))

\* a slip of packBytesSlice: the content is appended without padding
packBytesSliceUnpadded(bytes, l) == packNum(VGoInt(l)) \o bytes

\* packBytesSlice(bytes, l)
packBytesSlice(bytes, l) ==
    packNum(VGoInt(l)) \o RightPadBytes(bytes, ((l + 31) \div 32) * 32)

\* a slip of packElement: the UintTy case packs the number without looking at
\* its sign (only the integer cases are written out)
packElementUnsigned(t, reflectValue) ==
    IF t.T \in {"UintTy", "IntTy"} THEN PackOk(packNum(reflectValue))
    ELSE PackFail("could not pack element, unknown type")

\* packElement(t, reflectValue)
packElement(t, reflectValue) ==
    CASE t.T = "UintTy" ->
            IF reflectValue.kind = "ptr" /\ reflectValue.neg THEN PackFail(errInvalidSign)
            ELSE IF reflectValue.kind \notin UintKinds \cup IntKinds \cup {"ptr"}
            THEN PackFail("panic")
            ELSE PackOk(packNum(reflectValue))
      [] t.T = "IntTy" ->
            IF reflectValue.kind \notin UintKinds \cup IntKinds \cup {"ptr"}
            THEN PackFail("panic")
            ELSE PackOk(packNum(reflectValue))
      [] t.T = "StringTy" -> PackOk(packBytesSlice(reflectValue.bs, valLen(reflectValue)))
      [] t.T = "AddressTy" -> PackOk(LeftPadBytes(reflectValue.bs, 32))
      [] t.T = "BoolTy" ->
            IF reflectValue.flag THEN PackOk(LeftPadBytes(<<1>>, 32))
            ELSE PackOk(LeftPadBytes(<<>>, 32))
      [] t.T = "BytesTy" ->
            IF reflectValue.ek # "uint8"
            THEN PackFail("bytes type is neither slice nor array")
            ELSE PackOk(packBytesSlice(reflectValue.bs, valLen(reflectValue)))
      [] t.T \in {"FixedBytesTy", "FunctionTy"} -> PackOk(RightPadBytes(reflectValue.bs, 32))
      [] OTHER -> PackFail("could not pack element, unknown type")

\* indirect(v): the values of the model are no pointers other than *big.Int
indirect(v) == v

\* mapArgNamesToStructFields(argNames, value): each argument name to the struct
\* field whose name is its camel case, "" when the struct has none
mapArgNamesToStructFields(argNames, value) ==
    [i \in DOMAIN argNames |->
        IF \E j \in DOMAIN value.names : value.names[j] = ToCamelCase(argNames[i])
        THEN ToCamelCase(argNames[i]) ELSE <<>>]

\* reflect.Value.FieldByName: the index of the field, 0 when there is none
FieldByName(value, name) ==
    IF \E j \in DOMAIN value.names : value.names[j] = name
    THEN CHOOSE j \in DOMAIN value.names : value.names[j] = name
    ELSE 0

RECURSIVE pack(_, _)
RECURSIVE packListLoop(_, _, _, _, _, _)
RECURSIVE packTupleLoop(_, _, _, _, _, _, _)

\* the loop of the SliceTy/ArrayTy case over v.Index(i), i counted from 0
packListLoop(t, v, i, ret, tail, offset) ==
    IF i >= valLen(v) THEN PackOk(ret \o tail)
    ELSE LET r == pack(t.Elem[1], valIndex(v, i))
         IN IF r.err # "" THEN PackFail(r.err)
            ELSE IF ~isDynamicType(t.Elem[1])
            THEN packListLoop(t, v, i + 1, ret \o r.bytes, tail, offset)
            ELSE packListLoop(t, v, i + 1, ret \o packNum(VGoInt(offset)),
                              tail \o r.bytes, offset + Len(r.bytes))

\* the loop of the TupleTy case over t.TupleElems[i]
packTupleLoop(t, v, fieldmap, i, ret, tail, offset) ==
    IF i > Len(t.TupleElems) THEN PackOk(ret \o tail)
    ELSE LET f == FieldByName(v, fieldmap[i])
             r == pack(t.TupleElems[i], v.elems[f])
         IN IF f = 0 THEN PackFail("field for tuple not found in the given struct")
            ELSE IF r.err # "" THEN PackFail(r.err)
            ELSE IF isDynamicType(t.TupleElems[i])
            THEN packTupleLoop(t, v, fieldmap, i + 1, ret \o packNum(VGoInt(offset)),
                               tail \o r.bytes, offset + Len(r.bytes))
            ELSE packTupleLoop(t, v, fieldmap, i + 1, ret \o r.bytes, tail, offset)

\* Type.pack(v)
pack(t, v0) ==
    LET v == indirect(v0)
        terr == typeCheck(t, v)
    IN IF terr # "" THEN PackFail(terr)
       ELSE IF t.T = "SliceTy" \/ t.T = "ArrayTy"
       THEN packListLoop(t, v, 0,
                IF requiresLengthPrefix(t) THEN packNum(VGoInt(valLen(v))) ELSE <<>>,
                <<>>,
                IF isDynamicType(t.Elem[1]) THEN getTypeSize(t.Elem[1]) * valLen(v) ELSE 0)
       ELSE IF t.T = "TupleTy"
       THEN packTupleLoop(t, v, mapArgNamesToStructFields(t.TupleRawNames, v), 1,
                          <<>>, <<>>, SumSizes(t.TupleElems, 1))
       ELSE packElement(t, v)

\* Arguments.NonIndexed
NonIndexed(arguments) == SelectSeq(arguments, LAMBDA arg : ~arg.Indexed)

\* inputOffset += getTypeSize(abiArg.Type) over abiArgs[i..]
RECURSIVE SumArgSizes(_, _)
SumArgSizes(abiArgs, i) ==
    IF i > Len(abiArgs) THEN 0
    ELSE getTypeSize(abiArgs[i].Type) + SumArgSizes(abiArgs, i + 1)

\* a slip of the offset bookkeeping: the offset starts at 0, not at the head size
packInitialOffsetZero(abiArgs) == 0

\* the offset Arguments.Pack starts with: the size of the head
packInitialOffset(abiArgs) == SumArgSizes(abiArgs, 1)

\* the loop of Arguments.Pack over args[i]
RECURSIVE packArgsLoop(_, _, _, _, _, _)
packArgsLoop(abiArgs, a, i, ret, variableInput, inputOffset) ==
    IF i > Len(a) THEN PackOk(ret \o variableInput)
    ELSE LET input == abiArgs[i]
             r == pack(input.Type, a[i])
         IN IF r.err # "" THEN PackFail(r.err)
            ELSE IF isDynamicType(input.Type)
            THEN packArgsLoop(abiArgs, a, i + 1, ret \o packNum(VGoInt(inputOffset)),
                              variableInput \o r.bytes, inputOffset + Len(r.bytes))
            ELSE packArgsLoop(abiArgs, a, i + 1, ret \o r.bytes, variableInput,
                              inputOffset)

\* a slip of the arity check: the loop runs over the values without it, and
\* abiArgs[i] panics on a value beyond the list
ArgumentsPackUnchecked(arguments, a) ==
    IF Len(a) > Len(arguments) THEN PackFail("panic")
    ELSE packArgsLoop(arguments, a, 1, <<>>, <<>>, packInitialOffset(arguments))

\* Arguments.Pack(args...)
ArgumentsPack(arguments, a) ==
    IF Len(a) # Len(arguments) THEN PackFail("argument count mismatch")
    ELSE packArgsLoop(arguments, a, 1, <<>>, <<>>, packInitialOffset(arguments))

(***************************************************************************)
(* The decoder.  A result is [err, val, oob]: err = "" is success, "panic" *)
(* a run-time panic (a slice expression out of range).  oob records that   *)
(* decoding went on past an offset or length field whose 256-bit value     *)
(* points beyond the input or exceeds 2^63 - 1.                            *)
(***************************************************************************)
DecOk(v, oob) == [err |-> "", val |-> v, oob |-> oob]
DecFail(e) == [err |-> e, val |-> ZeroValue, oob |-> FALSE]

\* a 32-byte offset field read as the 256-bit number it is: beyond n, or wider
\* than 63 bits
FieldBeyond(w, n) == BitLen(Strip(w)) > 63 \/ natCmp(Strip(w), natOfInt(n)) > 0

\* math.MaxUintN for a type of n bytes, as a magnitude
MaxUintMag(n) == [i \in 1..n |-> 255]
\* math.MaxIntN, and the magnitude of math.MinIntN
MaxIntMag(n) == <<127>> \o [i \in 1..(n - 1) |-> 255]
MinIntMag(n) == <<128>> \o Zeros(n - 1)

\* !(!isu64 || u64 > math.MaxUintN) for a type of n bytes
uintFits(ret, n) == IsUint64(ret) /\ natCmp(ret.mag, MaxUintMag(n)) <= 0

\* !(!isi64 || i64 < math.MinIntN || i64 > math.MaxIntN) for a type of n bytes
intFits(ret, n) ==
    /\ IsInt64(ret)
    /\ ~(ret.neg /\ natCmp(ret.mag, MinIntMag(n)) > 0)
    /\ ~(~ret.neg /\ natCmp(ret.mag, MaxIntMag(n)) > 0)

\* ReadInteger(typ, b)
ReadInteger(typ, b) ==
    LET ret == SetBytes(b)
        sret == IF Bit(ret, 255) = 1
                THEN bigNeg(bigAdd(bigAdd(MaxUint256, bigNeg(ret)), Big(FALSE, <<1>>)))
                ELSE ret
    IN IF typ.T = "UintTy"
       THEN CASE typ.Size = 8 ->
                    IF ~uintFits(ret, 1) THEN DecFail("abi: improperly encoded uint8 value")
                    ELSE DecOk(VInt("uint8", ret), FALSE)
              [] typ.Size = 16 ->
                    IF ~uintFits(ret, 2) THEN DecFail("abi: improperly encoded uint16 value")
                    ELSE DecOk(VInt("uint16", ret), FALSE)
              [] typ.Size = 32 ->
                    IF ~uintFits(ret, 4) THEN DecFail("abi: improperly encoded uint32 value")
                    ELSE DecOk(VInt("uint32", ret), FALSE)
              [] typ.Size = 64 ->
                    IF ~IsUint64(ret) THEN DecFail("abi: improperly encoded uint64 value")
                    ELSE DecOk(VInt("uint64", ret), FALSE)
              [] OTHER -> DecOk(VInt("ptr", ret), FALSE)
       ELSE CASE typ.Size = 8 ->
                    IF ~intFits(sret, 1) THEN DecFail("abi: improperly encoded int8 value")
                    ELSE DecOk(VInt("int8", sret), FALSE)
              [] typ.Size = 16 ->
                    IF ~intFits(sret, 2) THEN DecFail("abi: improperly encoded int16 value")
                    ELSE DecOk(VInt("int16", sret), FALSE)
              [] typ.Size = 32 ->
                    IF ~intFits(sret, 4) THEN DecFail("abi: improperly encoded int32 value")
                    ELSE DecOk(VInt("int32", sret), FALSE)
              [] typ.Size = 64 ->
                    IF ~IsInt64(sret) THEN DecFail("abi: improperly encoded int64 value")
                    ELSE DecOk(VInt("int64", sret), FALSE)
              [] OTHER -> DecOk(VInt("ptr", sret), FALSE)

errBadBool == "abi: improperly encoded boolean value"

\* a slip of readBool: only the last byte is looked at
readBoolLastByte(w) ==
    IF w[32] = 0 THEN DecOk(VBool(FALSE), FALSE)
    ELSE IF w[32] = 1 THEN DecOk(VBool(TRUE), FALSE)
    ELSE DecFail(errBadBool)

\* readBool(word)
readBool(w) ==
    IF \E i \in 1..31 : w[i] # 0 THEN DecFail(errBadBool)
    ELSE IF w[32] = 0 THEN DecOk(VBool(FALSE), FALSE)
    ELSE IF w[32] = 1 THEN DecOk(VBool(TRUE), FALSE)
    ELSE DecFail(errBadBool)

\* readFunctionType(t, word)
readFunctionType(t, w) ==
    IF t.T # "FunctionTy"
    THEN DecFail("abi: invalid type in call to make function type byte array")
    ELSE IF Strip(Slice(w, 24, 32)) # <<>>
    THEN DecFail("abi: got improperly encoded function type")
    ELSE DecOk(VBytes("array", Slice(w, 0, 24)), FALSE)

\* ReadFixedBytes(t, word)
ReadFixedBytes(t, w) ==
    IF t.T # "FixedBytesTy"
    THEN DecFail("abi: invalid type in call to make fixed byte array")
    ELSE IF ~InRange(w, 0, t.Size) THEN DecFail("panic")
    ELSE DecOk(VBytes("array", Slice(w, 0, t.Size)), FALSE)

\* lengthPrefixPointsTo(index, output): [err, start, length, oob]
lengthPrefixPointsTo(index, output) ==
    LET offsetWord == Slice(output, index, index + 32)
        bigOffsetEnd == natAdd(Strip(offsetWord), <<32>>)
        outputLength == natOfInt(Len(output))
        offsetEnd == natToInt(bigOffsetEnd)
        lengthBig == Strip(Slice(output, offsetEnd - 32, offsetEnd))
        totalSize == natAdd(bigOffsetEnd, lengthBig)
        fail(e) == [err |-> e, start |-> 0, length |-> 0, oob |-> FALSE]
    IN IF natCmp(bigOffsetEnd, outputLength) > 0
       THEN fail("abi: cannot marshal in to go slice: offset would go over slice boundary")
       ELSE IF BitLen(bigOffsetEnd) > 63 THEN fail("abi offset larger than int64")
       ELSE IF ~InRange(output, offsetEnd - 32, offsetEnd) THEN fail("panic")
       ELSE IF BitLen(totalSize) > 63 THEN fail("abi: length larger than int64")
       ELSE IF natCmp(totalSize, outputLength) > 0
       THEN fail("abi: cannot marshal in to go type: length insufficient")
       ELSE [err |-> "", start |-> offsetEnd, length |-> natToInt(lengthBig),
             oob |-> \/ FieldBeyond(offsetWord, Len(output))
                     \/ BitLen(lengthBig) > 63
                     \/ natCmp(natAdd(bigOffsetEnd, lengthBig), outputLength) > 0]

\* tuplePointsTo(index, output): [err, start, oob]
tuplePointsTo(index, output) ==
    LET offsetWord == Slice(output, index, index + 32)
        offset == Strip(offsetWord)
        outputLen == natOfInt(Len(output))
    IN IF natCmp(offset, outputLen) > 0
       THEN [err |-> "abi: cannot marshal in to go slice: offset would go over slice boundary",
             start |-> 0, oob |-> FALSE]
       ELSE IF BitLen(offset) > 63
       THEN [err |-> "abi offset larger than int64", start |-> 0, oob |-> FALSE]
       ELSE [err |-> "", start |-> natToInt(offset),
             oob |-> FieldBeyond(offsetWord, Len(output))]

RECURSIVE toGoType(_, _, _)
RECURSIVE forEachUnpack(_, _, _, _)
RECURSIVE forEachLoop(_, _, _, _, _, _, _)
RECURSIVE forTupleUnpack(_, _)
RECURSIVE forTupleLoop(_, _, _, _, _, _)

\* the loop of forEachUnpack: for i, j := start, 0; j < size; i, j = i+elemSize, j+1
forEachLoop(t, output, i, j, size, acc, oob) ==
    IF j >= size
    THEN DecOk(VList(IF t.T = "SliceTy" THEN "slice" ELSE "array",
                     GetTypeKind(t.Elem[1]), acc), oob)
    ELSE LET inter == toGoType(i, t.Elem[1], output)
         IN IF inter.err # "" THEN DecFail(inter.err)
            ELSE forEachLoop(t, output, i + getTypeSize(t.Elem[1]), j + 1, size,
                             Append(acc, inter.val), oob \/ inter.oob)

\* forEachUnpack(t, output, start, size)
forEachUnpack(t, output, start, size) ==
    IF size < 0 THEN DecFail("cannot marshal input to array, size is negative")
    ELSE IF start + 32 * size > Len(output)
    THEN DecFail("abi: cannot marshal into go array: offset would go over slice boundary")
    ELSE IF t.T # "SliceTy" /\ t.T # "ArrayTy"
    THEN DecFail("abi: invalid type in array/slice unpacking stage")
    ELSE forEachLoop(t, output, start, 0, size, <<>>, FALSE)

\* a slip of the inflation: no virtual arguments are counted
virtualArgsOfNone(t) == 0

\* the virtual arguments a static array or static tuple adds to the index
virtualArgsOf(t) ==
    IF t.T = "ArrayTy" /\ ~isDynamicType(t) THEN getTypeSize(t) \div 32 - 1
    ELSE IF t.T = "TupleTy" /\ ~isDynamicType(t) THEN getTypeSize(t) \div 32 - 1
    ELSE 0

\* the loop of forTupleUnpack over t.TupleElems; index counted from 0
forTupleLoop(t, output, index, virtualArgs, acc, oob) ==
    IF index >= Len(t.TupleElems) THEN DecOk(VStruct(t.TupleFields, acc), oob)
    ELSE LET elem == t.TupleElems[index + 1]
             m == toGoType((index + virtualArgs) * 32, elem, output)
         IN IF m.err # "" THEN DecFail(m.err)
            ELSE forTupleLoop(t, output, index + 1, virtualArgs + virtualArgsOf(elem),
                              Append(acc, m.val), oob \/ m.oob)

\* forTupleUnpack(t, output)
forTupleUnpack(t, output) == forTupleLoop(t, output, 0, 0, <<>>, FALSE)

\* the result r of a nested call, with the fields dereferenced on the way to it
WithOob(r, oob) == IF r.err # "" THEN r ELSE [r EXCEPT !.oob = r.oob \/ oob]

\* toGoType(index, t, output)
toGoType(index, t, output) ==
    IF index + 32 > Len(output)
    THEN DecFail("abi: cannot marshal in to go type: length insufficient")
    ELSE
    LET lp == lengthPrefixPointsTo(index, output)
        returnOutput == Slice(output, index, index + 32)
    IN
    IF requiresLengthPrefix(t) /\ lp.err # "" THEN DecFail(lp.err)
    ELSE CASE t.T = "TupleTy" ->
            IF isDynamicType(t)
            THEN LET tp == tuplePointsTo(index, output)
                 IN IF tp.err # "" THEN DecFail(tp.err)
                    ELSE WithOob(forTupleUnpack(t, Slice(output, tp.start, Len(output))),
                                 tp.oob)
            ELSE forTupleUnpack(t, Slice(output, index, Len(output)))
      [] t.T = "SliceTy" ->
            WithOob(forEachUnpack(t, Slice(output, lp.start, Len(output)), 0, lp.length),
                    lp.oob)
      [] t.T = "ArrayTy" ->
            IF isDynamicType(t.Elem[1])
            THEN LET offset == Strip(Slice(returnOutput, Len(returnOutput) - 8,
                                           Len(returnOutput)))
                 IN IF natCmp(offset, natOfInt(Len(output))) > 0
                    THEN DecFail("abi: toGoType offset greater than output length")
                    ELSE WithOob(forEachUnpack(t, Slice(output, natToInt(offset),
                                                        Len(output)), 0, t.Size),
                                 FieldBeyond(returnOutput, Len(output)))
            ELSE forEachUnpack(t, Slice(output, index, Len(output)), 0, t.Size)
      [] t.T = "StringTy" ->
            IF ~InRange(output, lp.start, lp.start + lp.length) THEN DecFail("panic")
            ELSE DecOk(VString(Slice(output, lp.start, lp.start + lp.length)), lp.oob)
      [] t.T \in {"IntTy", "UintTy"} -> ReadInteger(t, returnOutput)
      [] t.T = "BoolTy" -> readBool(returnOutput)
      [] t.T = "AddressTy" -> DecOk(VBytes("array", BytesToAddress(returnOutput)), FALSE)
      [] t.T = "BytesTy" ->
            IF ~InRange(output, lp.start, lp.start + lp.length) THEN DecFail("panic")
            ELSE DecOk(VBytes("slice", Slice(output, lp.start, lp.start + lp.length)),
                       lp.oob)
      [] t.T = "FixedBytesTy" -> ReadFixedBytes(t, returnOutput)
      [] t.T = "FunctionTy" -> readFunctionType(t, returnOutput)
      [] OTHER -> DecFail("abi: unknown type")

\* a result of Arguments.Unpack: [err, vals, oob]
UnpackOk(vs, oob) == [err |-> "", vals |-> vs, oob |-> oob]
UnpackFail(e) == [err |-> e, vals |-> <<>>, oob |-> FALSE]

\* a slip of the skip: an indexed argument is skipped but still counted
indexAfterSkipCounted(index) == index + 1

\* the index after an indexed argument is skipped (continue): unchanged
indexAfterSkip(index) == index

\* the loop of Arguments.UnpackValues over arguments[k]
RECURSIVE unpackValuesLoop(_, _, _, _, _, _, _)
unpackValuesLoop(arguments, bytes, k, index, virtualArgs, retval, oob) ==
    IF k > Len(arguments) THEN UnpackOk(retval, oob)
    ELSE LET arg == arguments[k]
             m == toGoType((index + virtualArgs) * 32, arg.Type, bytes)
         IN IF arg.Indexed
            THEN unpackValuesLoop(arguments, bytes, k + 1, indexAfterSkip(index),
                                  virtualArgs, retval, oob)
            ELSE IF m.err # "" THEN UnpackFail(m.err)
            ELSE unpackValuesLoop(arguments, bytes, k + 1, index + 1,
                                  virtualArgs + virtualArgsOf(arg.Type),
                                  Append(retval, m.val), oob \/ m.oob)

\* Arguments.UnpackValues(data)
UnpackValues(arguments, bytes) == unpackValuesLoop(arguments, bytes, 1, 0, 0, <<>>, FALSE)

errEmptyInput == "abi: attempting to unmarshal an empty string while arguments are expected"

\* a slip of the empty-input check: every argument is counted, indexed or not
ArgumentsUnpackCountsAll(arguments, bytes) ==
    IF Len(bytes) = 0
    THEN IF Len(arguments) # 0 THEN UnpackFail(errEmptyInput) ELSE UnpackOk(<<>>, FALSE)
    ELSE UnpackValues(arguments, bytes)

\* Arguments.Unpack(data)
ArgumentsUnpack(arguments, bytes) ==
    IF Len(bytes) = 0
    THEN IF Len(NonIndexed(arguments)) # 0
         THEN UnpackFail(errEmptyInput)
         ELSE UnpackOk(<<>>, FALSE)
    ELSE UnpackValues(arguments, bytes)

errNilMap == "abi: cannot unpack into a nil map"

\* the loop of UnpackIntoMap: v[arg.Name] = marshalledValues[i]
RECURSIVE assignLoop(_, _, _, _)
assignLoop(nonIndexed, marshalledValues, i, entries) ==
    IF i > Len(nonIndexed) THEN entries
    ELSE assignLoop(nonIndexed, marshalledValues, i + 1,
                    [n \in DOMAIN entries \cup {nonIndexed[i].Name} |->
                        IF n = nonIndexed[i].Name THEN marshalledValues[i]
                        ELSE entries[n]])

\* a slip of UnpackIntoMap: the values decoded before a failure are written
UnpackIntoMapEager(arguments, v, data) ==
    IF v.isNil THEN [err |-> errNilMap, map |-> v]
    ELSE IF Len(data) = 0
    THEN [err |-> IF Len(NonIndexed(arguments)) # 0 THEN errEmptyInput ELSE "", map |-> v]
    ELSE CHOOSE res \in
            {[err |-> IF rs[Len(rs)].err = "" THEN "" ELSE "abi: decoding failed",
              map |-> LET k == CHOOSE k \in DOMAIN rs :
                                    /\ rs[k].err = ""
                                    /\ \A j \in DOMAIN rs : rs[j].err = "" => j <= k
                      IN MakeMap(assignLoop(NonIndexed(SubSeq(arguments, 1, k - 1)),
                                            rs[k].vals, 1, v.entries))] :
                rs \in {[k \in 1..(Len(arguments) + 1) |->
                            UnpackValues(SubSeq(arguments, 1, k - 1), data)]}} : TRUE

\* UnpackIntoMap from the return of UnpackValues on: r is that return
unpackIntoMapValues(arguments, v, r) ==
    IF r.err # "" THEN [err |-> r.err, map |-> v]
    ELSE [err |-> "",
          map |-> MakeMap(assignLoop(NonIndexed(arguments), r.vals, 1, v.entries))]

\* Arguments.UnpackIntoMap(v, data): [err, map], map being v after the call
UnpackIntoMap(arguments, v, data) ==
    IF v.isNil THEN [err |-> errNilMap, map |-> v]
    ELSE IF Len(data) = 0
    THEN IF Len(NonIndexed(arguments)) # 0 THEN [err |-> errEmptyInput, map |-> v]
         ELSE [err |-> "", map |-> v]
    ELSE unpackIntoMapValues(arguments, v, UnpackValues(arguments, data))

(***************************************************************************)
(* Inputs of the codec: types built by NewType, values of those types and  *)
(* argument lists.                                                         *)
(***************************************************************************)
\* Argument
Arg(name, typ, indexed) == [Name |-> name, Type |-> typ, Indexed |-> indexed]

BaseOf(s, c) == [s |-> s, c |-> c]

StaticComps ==
    <<Marshaling(<<"a">>, S_uint \o <<"2","5","6">>, <<>>),
      Marshaling(<<"b">>, S_bool, <<>>)>>

DynamicComps ==
    <<Marshaling(<<"a">>, S_uint \o <<"2","5","6">>, <<>>),
      Marshaling(<<"b">>, S_string, <<>>)>>

CodecBases ==
    { BaseOf(S_uint \o <<"8">>, <<>>), BaseOf(S_uint \o <<"6","4">>, <<>>),
      BaseOf(S_uint \o <<"2","5","6">>, <<>>), BaseOf(S_int \o <<"8">>, <<>>),
      BaseOf(S_int \o <<"1","2","8">>, <<>>), BaseOf(S_bool, <<>>),
      BaseOf(S_address, <<>>), BaseOf(S_string, <<>>), BaseOf(S_bytes, <<>>),
      BaseOf(S_bytes \o <<"3">>, <<>>), BaseOf(S_function, <<>>),
      BaseOf(S_tuple, StaticComps), BaseOf(S_tuple, DynamicComps) }

\* the Type NewType builds for a base and its bracket groups
CodecType(b, ns) == NewType(Render(b.s, ns, "plain"), <<>>, b.c).typ

CodecTypes == {CodecType(b, ns) : b \in CodecBases, ns \in BracketSeqs}

Companions ==
    { CodecType(BaseOf(S_uint \o <<"2","5","6">>, <<>>), <<>>),
      CodecType(BaseOf(S_string, <<>>), <<>>) }

ExtraSeqs == UNION {[1..n -> Companions] : n \in 0..MaxExtraArgs}

TypeLists == {<<t>> \o e : t \in CodecTypes, e \in ExtraSeqs}

\* the argument list of the given types; argument ix is indexed (0: none)
ArgsOf(ts, ix) == [i \in DOMAIN ts |-> Arg(<<"a", "r", "g">> \o Itoa(i), ts[i], i = ix)]

Variants == 1..3

NextVariant(k) == (k % 3) + 1

\* a Go value of type t.GetType(); k picks among a small, a boundary and an
\* empty or zero value
RECURSIVE SampleValue(_, _)
SampleValue(t, k) ==
    CASE t.T = "UintTy" ->
            VInt(GetTypeKind(t),
                 CASE k = 1 -> Big(FALSE, <<1>>)
                   [] k = 2 -> Big(FALSE, MaxUintMag(t.Size \div 8))
                   [] OTHER -> Big(FALSE, <<>>))
      [] t.T = "IntTy" ->
            VInt(GetTypeKind(t),
                 CASE k = 1 -> Big(FALSE, <<1>>)
                   [] k = 2 -> Big(TRUE, <<1>>)
                   [] OTHER -> Big(TRUE, MinIntMag(t.Size \div 8)))
      [] t.T = "BoolTy" -> VBool(k = 1)
      [] t.T = "StringTy" ->
            VString(CASE k = 1 -> <<104, 105>>
                      [] k = 2 -> <<>>
                      [] OTHER -> [i \in 1..33 |-> 97])
      [] t.T = "BytesTy" ->
            VBytes("slice", CASE k = 1 -> <<1, 2, 3>>
                              [] k = 2 -> <<>>
                              [] OTHER -> [i \in 1..32 |-> 255])
      [] t.T = "FixedBytesTy" -> VBytes("array", [i \in 1..t.Size |-> k + i])
      [] t.T = "AddressTy" -> VBytes("array", [i \in 1..20 |-> k + i])
      [] t.T = "FunctionTy" -> VBytes("array", [i \in 1..24 |-> k + i])
      [] t.T = "SliceTy" ->
            LET n == CASE k = 1 -> 1 [] k = 2 -> MaxArrayLen [] OTHER -> 0
            IN VList("slice", GetTypeKind(t.Elem[1]),
                     [i \in 1..n |-> SampleValue(t.Elem[1], NextVariant(k + i))])
      [] t.T = "ArrayTy" ->
            VList("array", GetTypeKind(t.Elem[1]),
                  [i \in 1..t.Size |-> SampleValue(t.Elem[1], NextVariant(k + i))])
      [] t.T = "TupleTy" ->
            VStruct(t.TupleFields,
                    [i \in DOMAIN t.TupleElems |->
                        SampleValue(t.TupleElems[i], NextVariant(k + i))])

(***************************************************************************)
(* SpecCodec: a caller packs values with an argument list and unpacks the  *)
(* produced bytes with the same list.                                      *)
(***************************************************************************)
NotPacked == [err |-> "not called", bytes |-> <<>>]
NotUnpacked == [err |-> "not called", vals |-> <<>>, oob |-> FALSE]
NotRead == [err |-> "not called", val |-> <<>>]

InitCodec ==
    /\ pc = "start"
    /\ \E ts \in TypeLists, k \in Variants :
          /\ \E ix \in 0..Len(ts) : argList = ArgsOf(ts, ix)
          /\ argVals = [i \in DOMAIN ts |-> SampleValue(ts[i], NextVariant(k + i))]
    /\ packed = NotPacked /\ inData = <<>> /\ unpacked = NotUnpacked
    /\ typeStr = <<>> /\ typeStr2 = <<>> /\ typeInt = <<>> /\ typeComps = <<>>
    /\ typeRes = NoType /\ typeRes2 = NoType
    /\ inWord = <<>> /\ intRes = NotRead
    /\ callerMap = NilMap /\ mapErr = "not called"
    /\ AccountsIdle
    /\ usedSet = {} /\ rawIn = <<>> /\ resolved = <<>>

\* data, err := arguments.Pack(args...)
DoPack ==
    /\ pc = "start"
    /\ packed' = ArgumentsPack(argList, argVals)
    /\ inData' = packed'.bytes
    /\ pc' = "packed"
    /\ UNCHANGED <<argList, argVals, unpacked, typeVars, intVars, nameVars, mapVars, accountsVars>>

\* vals, err := arguments.Unpack(data)
DoUnpack ==
    /\ pc = "packed"
    /\ packed.err = ""
    /\ unpacked' = ArgumentsUnpack(argList, inData)
    /\ pc' = "done"
    /\ UNCHANGED <<argList, argVals, packed, inData, typeVars, intVars, nameVars, mapVars, accountsVars>>

NextCodec == DoPack \/ DoUnpack

SpecCodec == InitCodec /\ [][NextCodec]_vars

(***************************************************************************)
(* SpecDecode: a caller unpacks bytes it received from elsewhere.          *)
(***************************************************************************)
\* 2^k as a magnitude
Pow2Mag(k) == <<2^(k % 8)>> \o Zeros(k \div 8)

WordOf(x) == U256Bytes(x)

DecodeWords ==
    { WordOf(Big(FALSE, <<>>)), WordOf(Big(FALSE, <<1>>)), WordOf(Big(FALSE, <<32>>)),
      WordOf(Big(FALSE, natAdd(Pow2Mag(64), <<32>>))), WordOf(Big(TRUE, <<1>>)),
      RightPadBytes(<<104, 105>>, 32) }

RECURSIVE Flatten(_)
Flatten(ws) == IF ws = <<>> THEN <<>> ELSE Head(ws) \o Flatten(Tail(ws))

\* up to MaxWords words, the last byte cut off or not
DecodeInputs ==
    LET whole == {Flatten(ws) : ws \in UNION {[1..n -> DecodeWords] : n \in 0..MaxWords}}
    IN whole \cup {SubSeq(d, 1, Len(d) - 1) : d \in whole \ {<<>>}}

DecodeBases ==
    { BaseOf(S_uint \o <<"2","5","6">>, <<>>), BaseOf(S_uint \o <<"8">>, <<>>),
      BaseOf(S_bool, <<>>), BaseOf(S_string, <<>>), BaseOf(S_bytes \o <<"3">>, <<>>),
      BaseOf(S_tuple, DynamicComps) }

DecodeTypes == {CodecType(b, ns) : b \in DecodeBases, ns \in {<<>>, <<-1>>, <<1>>}}

DecodeLists ==
    {<<t>> : t \in DecodeTypes}
        \cup {<<t, CodecType(BaseOf(S_string, <<>>), <<>>)>> : t \in DecodeTypes}

InitDecode ==
    /\ pc = "start"
    /\ \E ts \in DecodeLists : argList = ArgsOf(ts, 0)
    /\ inData \in DecodeInputs
    /\ argVals = <<>> /\ packed = NotPacked /\ unpacked = NotUnpacked
    /\ typeStr = <<>> /\ typeStr2 = <<>> /\ typeInt = <<>> /\ typeComps = <<>>
    /\ typeRes = NoType /\ typeRes2 = NoType
    /\ inWord = <<>> /\ intRes = NotRead
    /\ callerMap = NilMap /\ mapErr = "not called"
    /\ AccountsIdle
    /\ usedSet = {} /\ rawIn = <<>> /\ resolved = <<>>

\* vals, err := arguments.Unpack(data) on received bytes
DoUnpackReceived ==
    /\ pc = "start"
    /\ unpacked' = ArgumentsUnpack(argList, inData)
    /\ pc' = "done"
    /\ UNCHANGED <<argList, argVals, packed, inData, typeVars, intVars, nameVars, mapVars, accountsVars>>

NextDecode == DoUnpackReceived

SpecDecode == InitDecode /\ [][NextDecode]_vars

(***************************************************************************)
(* SpecInt: a caller declares an integer type and decodes one word.        *)
(***************************************************************************)
IntWidths == {8, 16, 24, 32, 64, 128, 256}

IntTypeStrings == {p \o Itoa(w) : p \in {S_uint, S_int}, w \in IntWidths}

IntValues ==
    { Big(FALSE, <<>>), Big(FALSE, <<1>>), Big(FALSE, <<127>>), Big(FALSE, <<128>>),
      Big(FALSE, <<255>>), Big(FALSE, <<1, 0>>), Big(FALSE, natSub(Pow2Mag(24), <<1>>)),
      Big(FALSE, Pow2Mag(24)), Big(FALSE, Pow2Mag(63)), Big(FALSE, Pow2Mag(64)),
      Big(FALSE, Pow2Mag(128)), Big(FALSE, Pow2Mag(255)), Big(TRUE, <<1>>),
      Big(TRUE, <<128>>), Big(TRUE, <<129>>), Big(TRUE, Pow2Mag(63)),
      Big(TRUE, natAdd(Pow2Mag(63), <<1>>)), Big(TRUE, Pow2Mag(127)) }

InitInt ==
    /\ pc = "start"
    /\ typeStr \in IntTypeStrings
    /\ inWord \in {WordOf(x) : x \in IntValues}
    /\ typeRes = NoType /\ intRes = NotRead
    /\ callerMap = NilMap /\ mapErr = "not called"
    /\ AccountsIdle
    /\ typeStr2 = <<>> /\ typeInt = <<>> /\ typeComps = <<>> /\ typeRes2 = NoType
    /\ argList = <<>> /\ argVals = <<>> /\ inData = <<>>
    /\ packed = NotPacked /\ unpacked = NotUnpacked
    /\ usedSet = {} /\ rawIn = <<>> /\ resolved = <<>>

\* typ, err := abi.NewType(t, "", nil)
DeclareInt ==
    /\ pc = "start"
    /\ typeRes' = NewType(typeStr, typeInt, typeComps)
    /\ pc' = "parsed"
    /\ UNCHANGED <<typeStr, typeInt, typeComps, typeStr2, typeRes2>>
    /\ UNCHANGED <<codecVars, intVars, nameVars, mapVars, accountsVars>>

\* v, err := ReadInteger(typ, word)
DoReadInteger ==
    /\ pc = "parsed"
    /\ typeRes.err = ""
    /\ intRes' = ReadInteger(typeRes.typ, inWord)
    /\ pc' = "done"
    /\ UNCHANGED <<inWord, typeVars, codecVars, nameVars, mapVars, accountsVars>>

NextInt == DeclareInt \/ DoReadInteger

SpecInt == InitInt /\ [][NextInt]_vars

(***************************************************************************)
(* SpecMismatch: a caller packs a value that may disagree with the type.   *)
(***************************************************************************)
Mutations == {"none", "kind", "width", "longer", "shorter", "deep", "oversize"}

\* v with one more element, or one more byte
Longer(v) ==
    IF v.ek = "uint8" THEN [v EXCEPT !.bs = @ \o <<7>>]
    ELSE IF v.kind \in {"slice", "array"} /\ v.elems # <<>>
    THEN [v EXCEPT !.elems = @ \o <<v.elems[1]>>]
    ELSE v

\* v without its last element, or its last byte
Shorter(v) ==
    IF v.ek = "uint8" /\ v.bs # <<>> THEN [v EXCEPT !.bs = SubSeq(@, 1, Len(@) - 1)]
    ELSE IF v.kind \in {"slice", "array"} /\ v.elems # <<>>
    THEN [v EXCEPT !.elems = SubSeq(@, 1, Len(@) - 1)]
    ELSE v

\* a byte array v grown to 33 bytes, one more than a word
Oversize(v) ==
    IF v.kind = "array" /\ v.ek = "uint8" /\ Len(v.bs) < 33
    THEN [v EXCEPT !.bs = @ \o [i \in 1..(33 - Len(@)) |-> 9]]
    ELSE v

\* a value of another kind
OtherKind(v) == IF v.kind = "bool" THEN VString(<<104, 105>>) ELSE VBool(TRUE)

\* an integer of another width
OtherWidth(v) ==
    IF v.kind = "uint8" THEN [v EXCEPT !.kind = "uint16"]
    ELSE IF v.kind \in UintKinds \cup IntKinds \cup {"ptr"} THEN [v EXCEPT !.kind = "uint8"]
    ELSE v

\* the value a caller hands over: v itself, or v changed in one place
Mutate(v, m) ==
    CASE m = "kind" -> OtherKind(v)
      [] m = "width" -> OtherWidth(v)
      [] m = "longer" -> Longer(v)
      [] m = "shorter" -> Shorter(v)
      [] m = "oversize" -> Oversize(v)
      [] m = "deep" ->
            IF v.elems # <<>>
            THEN [v EXCEPT !.elems[Len(v.elems)] =
                        IF Longer(@) # @ THEN Longer(@) ELSE OtherKind(@)]
            ELSE v
      [] OTHER -> v

InitMismatch ==
    /\ pc = "start"
    /\ \E t \in CodecTypes, k \in Variants, m \in Mutations :
          /\ argList = ArgsOf(<<t>>, 0)
          /\ argVals = <<Mutate(SampleValue(t, k), m)>>
    /\ packed = NotPacked /\ inData = <<>> /\ unpacked = NotUnpacked
    /\ typeStr = <<>> /\ typeStr2 = <<>> /\ typeInt = <<>> /\ typeComps = <<>>
    /\ typeRes = NoType /\ typeRes2 = NoType
    /\ inWord = <<>> /\ intRes = NotRead
    /\ callerMap = NilMap /\ mapErr = "not called"
    /\ AccountsIdle
    /\ usedSet = {} /\ rawIn = <<>> /\ resolved = <<>>

\* data, err := typ.pack(reflect.ValueOf(v))
DoTypePack ==
    /\ pc = "start"
    /\ packed' = pack(argList[1].Type, argVals[1])
    /\ pc' = "done"
    /\ UNCHANGED <<argList, argVals, inData, unpacked, typeVars, intVars, nameVars, mapVars, accountsVars>>

NextMismatch == DoTypePack

SpecMismatch == InitMismatch /\ [][NextMismatch]_vars

(***************************************************************************)
(* SpecInflate: a caller packs and unpacks lists that mix elementary,      *)
(* dynamic, static-array and static-tuple members and end in a uint8.      *)
(***************************************************************************)
InflateBases ==
    LET n == MaxArrayLen
        u256 == S_uint \o <<"2","5","6">>
        u8 == S_uint \o <<"8">>
        pair == <<Marshaling(<<"x">>, u256, <<>>), Marshaling(<<"y">>, S_bool, <<>>)>>
        of(s, c, ns) == [b |-> BaseOf(s, c), ns |-> ns]
    IN { of(u256, <<>>, <<>>),
         of(S_string, <<>>, <<>>),
         of(u256, <<>>, <<n>>),
         of(u256, <<>>, <<n, n>>),
         of(S_tuple, pair, <<>>),
         of(S_tuple, pair, <<n>>),
         of(S_tuple, <<Marshaling(<<"a">>, Render(u256, <<n>>, "plain"), <<>>),
                       Marshaling(<<"b">>, u8, <<>>)>>, <<>>),
         of(S_tuple, <<Marshaling(<<"a">>, S_tuple, pair),
                       Marshaling(<<"b">>, u8, <<>>)>>, <<>>),
         of(S_tuple, <<Marshaling(<<"a">>, Render(u8, <<n, n>>, "plain"), <<>>),
                       Marshaling(<<"b">>, S_string, <<>>),
                       Marshaling(<<"c">>, Render(S_tuple, <<n>>, "plain"), pair),
                       Marshaling(<<"d">>, u8, <<>>)>>, <<>>) }

\* the last argument of every list: a uint8
InflateLast == [b |-> BaseOf(S_uint \o <<"8">>, <<>>), ns |-> <<>>]

InflateLists ==
    {<<x, InflateLast>> : x \in InflateBases}
        \cup {<<x1, x2, InflateLast>> : x1 \in InflateBases, x2 \in InflateBases}

InitInflate ==
    /\ pc = "start"
    /\ \E xs \in InflateLists, k \in Variants :
          \E ts \in {[i \in DOMAIN xs |-> CodecType(xs[i].b, xs[i].ns)]} :
             /\ argList = ArgsOf(ts, 0)
             /\ argVals = [i \in DOMAIN ts |-> SampleValue(ts[i], NextVariant(k + i))]
    /\ packed = NotPacked /\ inData = <<>> /\ unpacked = NotUnpacked
    /\ typeStr = <<>> /\ typeStr2 = <<>> /\ typeInt = <<>> /\ typeComps = <<>>
    /\ typeRes = NoType /\ typeRes2 = NoType
    /\ inWord = <<>> /\ intRes = NotRead
    /\ callerMap = NilMap /\ mapErr = "not called"
    /\ AccountsIdle
    /\ usedSet = {} /\ rawIn = <<>> /\ resolved = <<>>

NextInflate == DoPack \/ DoUnpack

SpecInflate == InitInflate /\ [][NextInflate]_vars

(***************************************************************************)
(* SpecArity: a caller packs with as many values as the list has           *)
(* arguments, with fewer, or with more.                                    *)
(***************************************************************************)
ArityLists == UNION {[1..n -> Companions] : n \in 0..(MaxExtraArgs + 1)}

\* the values a caller hands over: vs, vs without its last, no value at all,
\* or vs and one more value
ArityChoices(vs) ==
    {vs, Append(vs, VBool(TRUE)), Append(vs, VInt("ptr", Big(FALSE, <<1>>)))}
        \cup (IF vs = <<>> THEN {} ELSE {SubSeq(vs, 1, Len(vs) - 1), <<>>})

InitArity ==
    /\ pc = "start"
    /\ \E ts \in ArityLists, k \in Variants :
          /\ \E ix \in 0..Len(ts) : argList = ArgsOf(ts, ix)
          /\ argVals \in ArityChoices([i \in DOMAIN ts |->
                                            SampleValue(ts[i], NextVariant(k + i))])
    /\ packed = NotPacked /\ inData = <<>> /\ unpacked = NotUnpacked
    /\ typeStr = <<>> /\ typeStr2 = <<>> /\ typeInt = <<>> /\ typeComps = <<>>
    /\ typeRes = NoType /\ typeRes2 = NoType
    /\ inWord = <<>> /\ intRes = NotRead
    /\ callerMap = NilMap /\ mapErr = "not called"
    /\ AccountsIdle
    /\ usedSet = {} /\ rawIn = <<>> /\ resolved = <<>>

NextArity == DoPack

SpecArity == InitArity /\ [][NextArity]_vars

(***************************************************************************)
(* SpecMap: a caller unpacks received bytes, into a value list or into a   *)
(* map of its own, with lists whose arguments are indexed or not.          *)
(***************************************************************************)
MapBases ==
    { BaseOf(S_uint \o <<"2","5","6">>, <<>>), BaseOf(S_bool, <<>>),
      BaseOf(S_string, <<>>) }

MapLists == UNION {[1..n -> MapBases] : n \in 0..(MaxExtraArgs + 1)}

\* the argument list of the given types, the arguments of flagged indexed
ArgsFlagged(ts, flagged) ==
    [i \in DOMAIN ts |-> Arg(<<"a", "r", "g">> \o Itoa(i), ts[i], i \in flagged)]

MapWords == {WordOf(Big(FALSE, <<>>)), WordOf(Big(FALSE, <<1>>)), WordOf(Big(FALSE, <<32>>))}

MapInputs == {Flatten(ws) : ws \in UNION {[1..n -> MapWords] : n \in 0..(MaxWords - 1)}}

\* the caller's map before the call: nil, empty, or holding one entry under
\* the first argument's name or under another name
CallerMaps ==
    { NilMap, MakeMap(<<>>),
      MakeMap([n \in {<<"a", "r", "g", "1">>} |-> VBool(FALSE)]),
      MakeMap([n \in {<<"o", "l", "d">>} |-> VBool(FALSE)]) }

InitMap ==
    /\ pc = "start"
    /\ \E bs \in MapLists, flagged \in SUBSET (1..(MaxExtraArgs + 1)) :
          /\ flagged \subseteq DOMAIN bs
          /\ argList = ArgsFlagged([i \in DOMAIN bs |-> CodecType(bs[i], <<>>)], flagged)
    /\ inData \in MapInputs
    /\ callerMap \in CallerMaps /\ mapErr = "not called"
    /\ AccountsIdle
    /\ argVals = <<>> /\ packed = NotPacked /\ unpacked = NotUnpacked
    /\ typeStr = <<>> /\ typeStr2 = <<>> /\ typeInt = <<>> /\ typeComps = <<>>
    /\ typeRes = NoType /\ typeRes2 = NoType
    /\ inWord = <<>> /\ intRes = [err |-> "not called", val |-> <<>>]
    /\ usedSet = {} /\ rawIn = <<>> /\ resolved = <<>>

\* err := arguments.UnpackIntoMap(v, data)
DoUnpackIntoMap ==
    /\ pc = "start"
    /\ \E r \in {UnpackIntoMap(argList, callerMap, inData)} :
          mapErr' = r.err /\ callerMap' = r.map
    /\ pc' = "mapped"
    /\ UNCHANGED <<codecVars, typeVars, intVars, nameVars, accountsVars>>

NextMap == DoUnpackReceived \/ DoUnpackIntoMap

SpecMap == InitMap /\ [][NextMap]_vars

(***************************************************************************)
(* SpecNum: a caller declares an integer type and packs a Go integer, of   *)
(* the type's own Go kind or of another one.                               *)
(***************************************************************************)
NumKinds == (UintKinds \cup IntKinds \cup {"ptr"}) \ {"uint", "int"}

NumValues ==
    IntValues \cup
    { Big(FALSE, <<5>>), Big(FALSE, Pow2Mag(256)), Big(FALSE, natAdd(Pow2Mag(256), <<5>>)),
      Big(TRUE, Pow2Mag(255)), Big(TRUE, natAdd(Pow2Mag(255), <<1>>)),
      Big(TRUE, Pow2Mag(256)) }

\* x is a value of the Go integer kind
KindHolds(kind, x) ==
    CASE kind = "uint8" -> uintFits(x, 1)
      [] kind = "uint16" -> uintFits(x, 2)
      [] kind = "uint32" -> uintFits(x, 4)
      [] kind = "uint64" -> IsUint64(x)
      [] kind = "int8" -> intFits(x, 1)
      [] kind = "int16" -> intFits(x, 2)
      [] kind = "int32" -> intFits(x, 4)
      [] kind = "int64" -> IsInt64(x)
      [] OTHER -> TRUE

InitNum ==
    /\ pc = "start"
    /\ typeStr \in IntTypeStrings
    /\ \E kind \in NumKinds, x \in NumValues :
          KindHolds(kind, x) /\ argVals = <<VInt(kind, x)>>
    /\ typeRes = NoType /\ intRes = NotRead
    /\ callerMap = NilMap /\ mapErr = "not called"
    /\ AccountsIdle
    /\ typeStr2 = <<>> /\ typeInt = <<>> /\ typeComps = <<>> /\ typeRes2 = NoType
    /\ argList = <<>> /\ inData = <<>> /\ inWord = <<>>
    /\ packed = NotPacked /\ unpacked = NotUnpacked
    /\ usedSet = {} /\ rawIn = <<>> /\ resolved = <<>>

\* data, err := typ.pack(reflect.ValueOf(v))
DoPackInteger ==
    /\ pc = "parsed"
    /\ typeRes.err = ""
    /\ packed' = pack(typeRes.typ, argVals[1])
    /\ pc' = "done"
    /\ UNCHANGED <<argList, argVals, inData, unpacked, typeVars, intVars, nameVars, mapVars, accountsVars>>

NextNum == DeclareInt \/ DoPackInteger

SpecNum == InitNum /\ [][NextNum]_vars

(***************************************************************************)
(* SpecBool: a caller unpacks received words as bools.                     *)
(***************************************************************************)
BoolWords ==
    { WordOf(Big(FALSE, <<>>)), WordOf(Big(FALSE, <<1>>)), WordOf(Big(FALSE, <<2>>)),
      WordOf(Big(FALSE, <<255>>)), WordOf(Big(FALSE, <<1, 0>>)),
      WordOf(Big(FALSE, <<1, 1>>)), WordOf(Big(FALSE, Pow2Mag(248))),
      WordOf(Big(FALSE, natAdd(Pow2Mag(255), <<1>>))), WordOf(Big(TRUE, <<1>>)) }

BoolInputs == {Flatten(ws) : ws \in UNION {[1..n -> BoolWords] : n \in 1..(MaxWords - 1)}}

InitBool ==
    /\ pc = "start"
    /\ \E n \in 1..(MaxWords - 1) :
          argList = ArgsOf([i \in 1..n |-> CodecType(BaseOf(S_bool, <<>>), <<>>)], 0)
    /\ inData \in BoolInputs
    /\ argVals = <<>> /\ packed = NotPacked /\ unpacked = NotUnpacked
    /\ typeStr = <<>> /\ typeStr2 = <<>> /\ typeInt = <<>> /\ typeComps = <<>>
    /\ typeRes = NoType /\ typeRes2 = NoType
    /\ inWord = <<>> /\ intRes = NotRead
    /\ callerMap = NilMap /\ mapErr = "not called"
    /\ AccountsIdle
    /\ usedSet = {} /\ rawIn = <<>> /\ resolved = <<>>

NextBool == DoUnpackReceived

SpecBool == InitBool /\ [][NextBool]_vars

(***************************************************************************)
(* Claims about the codec.                                                 *)
(***************************************************************************)
\* C1: round trip.  For an argument list of one type NewType produced and a
\* value of that type, Pack succeeds, and Unpack of the produced bytes with
\* the same list succeeds and returns a value equal to the one packed.
C1_RoundTrip ==
    (Len(argList) = 1 /\ ~argList[1].Indexed) =>
        /\ pc = "packed" => packed.err = ""
        /\ pc = "done" => unpacked.err = "" /\ unpacked.vals = argVals

\* the encoding Type.pack gives argument i
EncOf(i) == pack(argList[i].Type, argVals[i]).bytes

\* the encodings of all arguments
AllEncs == [i \in DOMAIN argList |-> EncOf(i)] \o <<>>

\* the head position of argument i: the head sizes of the arguments before it
HeadPos(i) == SumArgSizes(SubSeq(argList, 1, i - 1), 1)

\* the total length of the tail encodings of the dynamic arguments before i
RECURSIVE TailBefore(_, _)
TailBefore(encs, i) ==
    IF i <= 1 THEN 0
    ELSE TailBefore(encs, i - 1)
            + (IF isDynamicType(argList[i - 1].Type) THEN Len(encs[i - 1]) ELSE 0)

\* out is laid out as head and tail of the encodings encs
HeadTailLayout(out, encs) ==
    LET n == Len(argList)
        headSize == SumArgSizes(argList, 1)
    IN /\ Len(out) = headSize + TailBefore(encs, n + 1)
       /\ \A i \in 1..n :
            IF isDynamicType(argList[i].Type)
            THEN /\ HeadPos(i) + 32 <= headSize
                 /\ natToInt(Strip(SubSeq(out, HeadPos(i) + 1, HeadPos(i) + 32)))
                        = headSize + TailBefore(encs, i)
                 /\ SubSeq(out, headSize + TailBefore(encs, i) + 1,
                           headSize + TailBefore(encs, i) + Len(encs[i])) = encs[i]
            ELSE SubSeq(out, HeadPos(i) + 1, HeadPos(i) + getTypeSize(argList[i].Type))
                    = encs[i]

\* C2: head/tail layout of Arguments.Pack.  The output is the head, of the
\* summed getTypeSize of all arguments, followed by the tail; a static
\* argument's encoding sits in the head at its head position; the head word of
\* a dynamic argument i holds (head size) + (tail lengths of the dynamic
\* arguments before i), and the encoding of i begins at exactly that byte
\* index of the output; the tails follow one another in argument order.
C2_HeadTailLayout ==
    (pc # "start" /\ packed.err = "") =>
        \A encs \in {AllEncs} : HeadTailLayout(packed.bytes, encs)

\* a dynamic argument packed after another dynamic argument with a non-empty tail
C2_Witness ==
    /\ pc = "packed" /\ packed.err = ""
    /\ \E i \in DOMAIN argList, j \in DOMAIN argList :
          /\ i < j
          /\ isDynamicType(argList[i].Type) /\ isDynamicType(argList[j].Type)
          /\ Len(EncOf(i)) > 32 /\ Len(EncOf(j)) > 32

\* C3: offset validity.  Unpack never panics, and it returns an error whenever
\* an offset or length field it dereferences points beyond len(data) or
\* exceeds 2^63 - 1.
C3_OffsetValidity ==
    pc = "done" => /\ unpacked.err # "panic"
                   /\ unpacked.err = "" => ~unpacked.oob

\* the word's value fits N bits with the type's signedness: an unsigned value
\* has no bit at or above N, a two's complement value repeats its sign bit
\* from bit N - 1 up
FitsWidth(t, w) ==
    IF t.T = "UintTy" THEN \A i \in t.Size..255 : Bit(SetBytes(w), i) = 0
    ELSE \A i \in (t.Size - 1)..255 : Bit(SetBytes(w), i) = Bit(SetBytes(w), 255)

\* the value of the word: unsigned, or two's complement by bit 255
WordValue(t, w) ==
    IF t.T = "IntTy" /\ Bit(SetBytes(w), 255) = 1
    THEN Big(TRUE, natAdd(natSub(MaxUint256.mag, Strip(w)), <<1>>))
    ELSE SetBytes(w)

\* C4: integer decode narrowing.  For every declared width N, decoding a word
\* returns the word's value exactly when that value is representable in N bits
\* with the type's signedness, and fails otherwise.
C4_IntegerNarrowing ==
    pc = "done" =>
        IF FitsWidth(typeRes.typ, inWord)
        THEN intRes.err = "" /\ BigOf(intRes.val) = WordValue(typeRes.typ, inWord)
        ELSE intRes.err # ""

\* the values handed over for the non-indexed arguments
RECURSIVE NonIndexedVals(_, _, _)
NonIndexedVals(arguments, a, i) ==
    IF i > Len(arguments) THEN <<>>
    ELSE (IF arguments[i].Indexed THEN <<>> ELSE <<a[i]>>)
            \o NonIndexedVals(arguments, a, i + 1)

\* C5: indexed arguments are excluded from packing.  The bytes Arguments.Pack
\* produces are the encoding of the non-indexed arguments only.
C5_PackOmitsIndexed ==
    (pc # "start" /\ packed.err = "") =>
        packed.bytes = ArgumentsPack(NonIndexed(argList),
                                     NonIndexedVals(argList, argVals, 1)).bytes

\* C6: Unpack skips indexed arguments.  On success it returns one value per
\* non-indexed argument, in argument order, each decoded at the head position
\* that the non-indexed arguments before it fix.
C6_UnpackSkipsIndexed ==
    (pc = "done" /\ unpacked.err = "") =>
        LET ni == NonIndexed(argList)
        IN /\ Len(unpacked.vals) = Len(ni)
           /\ \A i \in DOMAIN ni :
                LET r == toGoType(SumArgSizes(SubSeq(ni, 1, i - 1), 1), ni[i].Type, inData)
                IN r.err = "" /\ unpacked.vals[i] = r.val

\* a successful Unpack with an indexed argument before a non-indexed one
C6_Witness ==
    /\ pc = "done" /\ unpacked.err = ""
    /\ \E i \in DOMAIN argList, j \in DOMAIN argList :
          i < j /\ argList[i].Indexed /\ ~argList[j].Indexed
    /\ Len(unpacked.vals) >= 1

errTypeMismatch == "abi: cannot use value as type"

\* the value agrees with the type in kind, in shape and in every fixed length,
\* at every depth
RECURSIVE Conforms(_, _)
Conforms(t, v) ==
    CASE t.T \in {"IntTy", "UintTy", "BoolTy", "StringTy"} -> v.kind = GetTypeKind(t)
      [] t.T = "BytesTy" -> v.kind = "slice" /\ v.ek = "uint8"
      [] t.T = "FixedBytesTy" -> v.kind = "array" /\ v.ek = "uint8" /\ Len(v.bs) = t.Size
      [] t.T = "AddressTy" -> v.kind = "array" /\ v.ek = "uint8" /\ Len(v.bs) = 20
      [] t.T = "FunctionTy" -> v.kind = "array" /\ v.ek = "uint8" /\ Len(v.bs) = 24
      [] t.T \in {"SliceTy", "ArrayTy"} ->
            /\ v.kind \in {"slice", "array"}
            /\ v.ek = GetTypeKind(t.Elem[1])
            /\ t.T = "ArrayTy" => valLen(v) = t.Size
            /\ \A i \in 1..valLen(v) : Conforms(t.Elem[1], valIndex(v, i - 1))
      [] t.T = "TupleTy" ->
            /\ v.kind = "struct"
            /\ v.names = t.TupleFields
            /\ Len(v.elems) = Len(t.TupleElems)
            /\ \A i \in DOMAIN v.elems : Conforms(t.TupleElems[i], v.elems[i])

\* C10: type mismatch.  Type.pack returns the type-mismatch error and no bytes
\* whenever the value disagrees with the type in kind, in shape or in a fixed
\* length (a fixed array, bytesN, address, function), at every nesting depth.
C10_TypeMismatch ==
    (pc = "done" /\ ~Conforms(argList[1].Type, argVals[1])) =>
        packed.err = errTypeMismatch /\ packed.bytes = <<>>

\* C11: getTypeSize is the size actually occupied.  For a static type and any
\* value Type.pack accepts, the encoding is getTypeSize(T) bytes long; for a
\* dynamic type getTypeSize is 32.
C11_SizeIsOccupied ==
    (pc = "done" /\ packed.err = "") =>
        LET t == argList[1].Type
        IN IF isDynamicType(t) THEN getTypeSize(t) = 32
           ELSE Len(packed.bytes) = getTypeSize(t)

\* the bytes a tuple argument at head position pos is decoded from: the data
\* from pos on for a static tuple, from the offset its head word holds for a
\* dynamic one
TupleRegion(t, pos, data) ==
    IF isDynamicType(t)
    THEN Slice(data, natToInt(Strip(Slice(data, pos, pos + 32))), Len(data))
    ELSE Slice(data, pos, Len(data))

\* every field of the decoded tuple v is the decoding at the summed getTypeSize
\* of the fields before it
FieldsAtSummedSizes(t, v, region) ==
    \A j \in DOMAIN t.TupleElems :
        LET r == toGoType(SumSizes(SubSeq(t.TupleElems, 1, j - 1), 1),
                          t.TupleElems[j], region)
        IN r.err = "" /\ v.elems[j] = r.val

\* C12: virtual-argument inflation.  Arguments.UnpackValues decodes argument i
\* at the byte position that is the sum of getTypeSize over the arguments
\* before it, and forTupleUnpack decodes field j at the sum of getTypeSize over
\* the fields before it, for every mix of elementary, dynamic, static-array and
\* static-tuple members: the position at which Pack wrote it, so the value
\* read there is the value packed.
C12_VirtualArgInflation ==
    pc = "done" =>
        /\ unpacked.err = ""
        /\ Len(unpacked.vals) = Len(argList)
        /\ \A i \in DOMAIN argList :
              LET t == argList[i].Type
                  r == toGoType(HeadPos(i), t, inData)
              IN /\ r.err = "" /\ unpacked.vals[i] = r.val
                 /\ unpacked.vals[i] = argVals[i]
                 /\ t.T = "TupleTy" =>
                        FieldsAtSummedSizes(t, unpacked.vals[i],
                                            TupleRegion(t, HeadPos(i), inData))

\* a list unpacked whose last argument follows a static array or static tuple
\* of more than one word and a tuple with such a member before its last field
C12_Witness ==
    /\ pc = "done" /\ unpacked.err = ""
    /\ \E i \in DOMAIN argList :
          /\ i < Len(argList)
          /\ argList[i].Type.T \in {"ArrayTy", "TupleTy"}
          /\ ~isDynamicType(argList[i].Type)
          /\ getTypeSize(argList[i].Type) > 32
    /\ \E i \in DOMAIN argList :
          /\ argList[i].Type.T = "TupleTy"
          /\ \E j \in DOMAIN argList[i].Type.TupleElems :
                /\ j < Len(argList[i].Type.TupleElems)
                /\ virtualArgsOf(argList[i].Type.TupleElems[j]) > 0
    /\ unpacked.vals[Len(argList)] = argVals[Len(argList)]

\* the tuple type (T1,...,Tk) of an argument list, as the tuple case of NewType
\* builds it from components named as the arguments
TupleOfArgs(arguments) ==
    [ZeroType EXCEPT !.T = "TupleTy",
                     !.TupleElems = [i \in DOMAIN arguments |-> arguments[i].Type],
                     !.TupleRawNames = [i \in DOMAIN arguments |-> arguments[i].Name],
                     !.TupleFields =
                        [i \in DOMAIN arguments |-> ToCamelCase(arguments[i].Name)]]

\* the struct holding the values a under the field names of the tuple type
StructOfArgs(arguments, a) ==
    VStruct([i \in DOMAIN arguments |-> ToCamelCase(arguments[i].Name)], a)

\* C13: argument-list packing is the tuple encoding at top level.  For a list
\* with no indexed argument, Arguments.Pack(v1,...,vk) returns byte for byte
\* what Type.pack returns for the struct holding v1..vk against the tuple type
\* (T1,...,Tk).
C13_PackIsTuplePack ==
    (pc # "start" /\ \A i \in DOMAIN argList : ~argList[i].Indexed) =>
        /\ packed.err = ""
        /\ packed = pack(TupleOfArgs(argList), StructOfArgs(argList, argVals))

\* a list of several arguments packed, one of them dynamic with a tail of more
\* than its length word and one static of more than one word
C13_Witness ==
    /\ pc = "packed" /\ packed.err = ""
    /\ \A i \in DOMAIN argList : ~argList[i].Indexed
    /\ Len(argList) >= 2
    /\ \E i \in DOMAIN argList :
          isDynamicType(argList[i].Type) /\ Len(EncOf(i)) > 32
    /\ \E i \in DOMAIN argList :
          ~isDynamicType(argList[i].Type) /\ getTypeSize(argList[i].Type) > 32

errArgumentCount == "argument count mismatch"

\* C14: arity.  Arguments.Pack called with a number of values that differs from
\* the number of arguments of the list, indexed and non-indexed together, fails
\* with the argument-count-mismatch error and returns no bytes, whatever the
\* values are.
C14_ArityMismatch ==
    (pc = "packed" /\ Len(argVals) # Len(argList)) =>
        packed.err = errArgumentCount /\ packed.bytes = <<>>

\* Pack was called with fewer values than a list with an indexed argument has
\* arguments
C14_Witness ==
    /\ pc = "packed"
    /\ Len(argVals) < Len(argList) /\ Len(argVals) > 0
    /\ \E i \in DOMAIN argList : argList[i].Indexed
    /\ packed.err = errArgumentCount

C17_InvalidSign ==
    (pc = "done" /\ typeRes.typ.T = "UintTy" /\ argVals[1].neg) =>
        packed.err = errInvalidSign /\ packed.bytes = <<>>

\* C17, amended: packing a negative integer against an unsigned type fails and
\* produces no bytes; the error is the invalid-sign error when the type's Go
\* type is *big.Int (N is none of 8, 16, 32, 64) and the value is a *big.Int,
\* and the type-mismatch error for every other negative value, which is then
\* of another Go kind than the type's.
C17_NegativeRejected ==
    (pc = "done" /\ typeRes.typ.T = "UintTy" /\ argVals[1].neg) =>
        /\ packed.bytes = <<>>
        /\ packed.err = IF GetTypeKind(typeRes.typ) = "ptr" /\ argVals[1].kind = "ptr"
                        THEN errInvalidSign ELSE errTypeMismatch

\* a negative *big.Int was packed against uint256 and met the invalid-sign error
C17_Witness ==
    /\ pc = "done" /\ typeRes.typ.T = "UintTy" /\ typeRes.typ.Size = 256
    /\ argVals[1].kind = "ptr" /\ argVals[1].neg
    /\ packed.err = errInvalidSign

\* 2^256 as a magnitude
Pow256 == <<1>> \o Zeros(32)

\* C18: integer encoding.  For every integer value v that Type.pack accepts for
\* intN or uintN the encoding is exactly 32 bytes: the big-endian unsigned
\* representation of v when v >= 0, the 256-bit two's complement of v when
\* v < 0; the word denotes the value supplied.
C18_IntegerEncoding ==
    (pc = "done" /\ packed.err = "") =>
        /\ Len(packed.bytes) = 32
        /\ IF argVals[1].neg
           THEN /\ natAdd(Strip(packed.bytes), argVals[1].mag) = Pow256
                /\ packed.bytes[1] >= 128
           ELSE Strip(packed.bytes) = argVals[1].mag

\* C19: string and bytes encoding.  Packing a string or dynamic bytes value of
\* byte length L yields a 32-byte big-endian length word equal to L, then the
\* content, then zero bytes up to the next multiple of 32: 32 + 32*ceil(L/32)
\* bytes in all, the length word alone when L = 0.
C19_BytesEncoding ==
    (pc = "done" /\ packed.err = "" /\ argList[1].Type.T \in {"StringTy", "BytesTy"}) =>
        LET L == Len(argVals[1].bs)
            out == packed.bytes
        IN /\ Len(out) >= 32
           /\ natToInt(Strip(SubSeq(out, 1, 32))) = L
           /\ Len(out) % 32 = 0
           /\ L <= Len(out) - 32 /\ Len(out) - 32 < L + 32
           /\ SubSeq(out, 33, 32 + L) = argVals[1].bs
           /\ \A i \in (33 + L)..Len(out) : out[i] = 0

\* a string or bytes value of 33 bytes, one more than a word, has been packed
C19_Witness ==
    /\ pc = "done" /\ packed.err = ""
    /\ argList[1].Type.T \in {"StringTy", "BytesTy"}
    /\ Len(argVals[1].bs) = 33
    /\ Len(packed.bytes) = 96

\* the i-th 32-byte word of the data
DataWord(i) == SubSeq(inData, 32 * (i - 1) + 1, 32 * i)

\* the word is a properly encoded bool: 31 zero bytes, then 0 or 1
ProperBool(w) == (\A j \in 1..31 : w[j] = 0) /\ w[32] \in {0, 1}

\* C20: bool decode strictness.  Decoding a 32-byte word as bool succeeds only
\* if its first 31 bytes are zero and its last byte is 0 (false) or 1 (true);
\* every other word fails with the improperly-encoded-boolean error.
C20_BoolStrict ==
    (pc = "done" /\ Len(inData) >= 32 * Len(argList)) =>
        IF \A i \in DOMAIN argList : ProperBool(DataWord(i))
        THEN /\ unpacked.err = ""
             /\ unpacked.vals = [i \in DOMAIN argList |-> VBool(DataWord(i)[32] = 1)]
        ELSE unpacked.err = errBadBool /\ unpacked.vals = <<>>

\* a word with last byte 1 and a non-zero byte before it has been refused
C20_Witness ==
    /\ pc = "done" /\ Len(inData) >= 32 * Len(argList)
    /\ \E i \in DOMAIN argList :
          /\ DataWord(i)[32] = 1 /\ ~ProperBool(DataWord(i))
          /\ \A j \in 1..(i - 1) : ProperBool(DataWord(j))
    /\ unpacked.err = errBadBool

\* dynamic as the specification defines it: string, bytes, a slice of anything,
\* an array whose element is dynamic, a tuple with at least one dynamic field
RECURSIVE DynamicByDefinition(_)
DynamicByDefinition(t) ==
    CASE t.T \in {"StringTy", "BytesTy", "SliceTy"} -> TRUE
      [] t.T = "ArrayTy" -> DynamicByDefinition(t.Elem[1])
      [] t.T = "TupleTy" ->
            \E i \in DOMAIN t.TupleElems : DynamicByDefinition(t.TupleElems[i])
      [] OTHER -> FALSE

\* isDynamicType agrees with the definition on t and on every type inside t
RECURSIVE ClassifiedByDefinition(_)
ClassifiedByDefinition(t) ==
    /\ isDynamicType(t) = DynamicByDefinition(t)
    /\ \A i \in DOMAIN t.Elem : ClassifiedByDefinition(t.Elem[i])
    /\ \A i \in DOMAIN t.TupleElems : ClassifiedByDefinition(t.TupleElems[i])

\* C21: dynamic classification.  For every Type tree NewType builds,
\* isDynamicType is true exactly for string, bytes, a slice of anything, an
\* array whose element type is dynamic and a tuple with at least one dynamic
\* field, recursively, and false for every other type.
C21_DynamicClassification ==
    (pc = "parsed" /\ typeRes.err = "") => ClassifiedByDefinition(typeRes.typ)

\* a parsed tuple that is dynamic only through a field of a tuple field, next
\* to a parsed static type
C21_Witness ==
    /\ pc = "parsed" /\ typeRes.err = ""
    /\ \E t \in {typeRes.typ} \cup {typeRes.typ.Elem[i] : i \in DOMAIN typeRes.typ.Elem} :
          /\ t.T = "TupleTy" /\ isDynamicType(t)
          /\ \A i \in DOMAIN t.TupleElems :
                t.TupleElems[i].T \notin {"StringTy", "BytesTy", "SliceTy"}
          /\ \E i \in DOMAIN t.TupleElems :
                t.TupleElems[i].T = "TupleTy" /\ isDynamicType(t.TupleElems[i])

(***************************************************************************)
(* The account manager (accounts/manager.go): backends that hold wallets   *)
(* and report arrivals and departures, the goroutine am.update() that      *)
(* keeps the wallet cache, and the goroutines that call AddBackend, Close  *)
(* and Wallets.                                                            *)
(***************************************************************************)
\* the ABI codec is not in use
AbiIdle ==
    /\ typeStr = <<>> /\ typeStr2 = <<>> /\ typeInt = <<>> /\ typeComps = <<>>
    /\ typeRes = NoType /\ typeRes2 = NoType
    /\ argList = <<>> /\ argVals = <<>> /\ inData = <<>>
    /\ packed = NotPacked /\ unpacked = NotUnpacked
    /\ inWord = <<>> /\ intRes = [err |-> "not called", val |-> <<>>]
    /\ usedSet = {} /\ rawIn = <<>> /\ resolved = <<>>
    /\ callerMap = NilMap /\ mapErr = "not called"

\* wallet events the backends send to the manager
MaxEvents == 2
\* goroutines that call AddBackend or Close, one call each
MaxCallers == 2

\* the characters of the model's URLs in the order of their bytes, and the
\* place of a character in it
AsciiOrder == DigitChars \o UpperChars \o LowerChars

byteOf(c) == CHOOSE i \in DOMAIN AsciiOrder : AsciiOrder[i] = c

\* strings.Compare(a, b)
RECURSIVE compareFrom(_, _, _)
compareFrom(a, b, i) ==
    IF i > Len(a) /\ i > Len(b) THEN 0
    ELSE IF i > Len(a) THEN -1
    ELSE IF i > Len(b) THEN 1
    ELSE IF byteOf(a[i]) < byteOf(b[i]) THEN -1
    ELSE IF byteOf(a[i]) > byteOf(b[i]) THEN 1
    ELSE compareFrom(a, b, i + 1)

Compare(a, b) == compareFrom(a, b, 1)

\* URL{Scheme, Path}
URL(scheme, path) == [Scheme |-> scheme, Path |-> path]

\* u.Cmp(url)
Cmp(u, url) ==
    IF u.Scheme = url.Scheme
    THEN Compare(u.Path, url.Path)
    ELSE Compare(u.Scheme, url.Scheme)

\* sort.Search(len(slice), func(i) { return slice[i].URL().Cmp(wallet.URL()) >= 0 }):
\* the binary search between i and j, 0-based as in Go
RECURSIVE searchBetween(_, _, _, _)
searchBetween(slice, wallet, i, j) ==
    IF i < j
    THEN LET h == (i + j) \div 2
         IN  IF ~(Cmp(slice[h + 1].URL, wallet.URL) >= 0)
             THEN searchBetween(slice, wallet, h + 1, j)
             ELSE searchBetween(slice, wallet, i, h)
    ELSE i

Search(slice, wallet) == searchBetween(slice, wallet, 0, Len(slice))

\* a slip of merge: every wallet goes to the end of the slice
RECURSIVE mergeAtEnd(_, _)
mergeAtEnd(slice, wallets) ==
    IF wallets = <<>> THEN slice
    ELSE mergeAtEnd(Append(slice, Head(wallets)), Tail(wallets))

\* merge(slice, wallets...)
RECURSIVE merge(_, _)
merge(slice, wallets) ==
    IF wallets = <<>> THEN slice
    ELSE LET wallet == Head(wallets)
             n == Search(slice, wallet)
         IN  IF n = Len(slice)
             THEN merge(Append(slice, wallet), Tail(wallets))
             ELSE merge(SubSeq(slice, 1, n) \o <<wallet>> \o SubSeq(slice, n + 1, Len(slice)),
                        Tail(wallets))

\* drop(slice, wallets...)
RECURSIVE drop(_, _)
drop(slice, wallets) ==
    IF wallets = <<>> THEN slice
    ELSE LET wallet == Head(wallets)
             n == Search(slice, wallet)
         IN  IF n = Len(slice)
             THEN drop(slice, Tail(wallets))
             ELSE drop(SubSeq(slice, 1, n) \o SubSeq(slice, n + 2, Len(slice)),
                       Tail(wallets))

\* const managerSubBufferSize
managerSubBufferSize == 50

\* a slip of Send: the event is delivered twice
SendTwice(feed, event) == feed \o <<event, event>>

\* am.feed.Send(event): the feed is the sequence of the events sent
Send(feed, event) == Append(feed, event)

\* the backends of the model and reflect.TypeOf of each
BackendNames == {"keystore", "ledger"}

TypeOf(backend) == IF backend = "keystore" THEN "*keystore.KeyStore" ELSE "*usbwallet.Hub"

Kinds == {TypeOf(b) : b \in BackendNames}

S_keystore == <<"k","e","y","s","t","o","r","e">>
S_ledger == <<"l","e","d","g","e","r">>

\* a Wallet, as far as the manager looks at it: its URL()
Wallet(scheme, path) == [URL |-> URL(scheme, path)]

\* the wallets each backend can hold
Pool(backend) ==
    IF backend = "keystore"
    THEN {Wallet(S_keystore, <<"b">>)}
    ELSE {Wallet(S_ledger, <<"a">>)}

\* the sequences without repetition over a set
Arrangements(S) ==
    {q \in UNION {[1..n -> S] : n \in 0..Cardinality(S)} :
        \A i, j \in DOMAIN q : i # j => q[i] # q[j]}

\* WalletEvent{Wallet, Kind}
WalletEvent(wallet, kind) == [Wallet |-> wallet, Kind |-> kind]

Callers == 1..MaxCallers

RangeOf(q) == {q[i] : i \in DOMAIN q}

\* the subscriptions the manager holds at a backend
Subscriptions(backend) == Cardinality({i \in DOMAIN am.updaters : am.updaters[i] = backend})

\* event as often as n
RECURSIVE Copies(_, _)
Copies(event, n) == IF n = 0 THEN <<>> ELSE <<event>> \o Copies(event, n - 1)

NoEvent == WalletEvent(<<>>, "")

\* what no step of the manager touches
besideManager == <<pc, typeVars, codecVars, intVars, nameVars, mapVars, iterVars, textVars>>

LoopAt(at) ==
    [pc |-> at, event |-> NoEvent, backend |-> "", caller |-> 0, before |-> <<>>,
     closed |-> updateLoop.closed]

\* NewManager's first loop: wallets = merge(wallets, backend.Wallets()...)
RECURSIVE reportedBy(_, _)
reportedBy(wallets, backends) ==
    IF backends = <<>> THEN wallets
    ELSE reportedBy(merge(wallets, held[Head(backends)]), Tail(backends))

\* NewManager(config, backends...), the state it returns
NewManager(backends) ==
    [backends |-> [k \in Kinds |->
                     SelectSeq(backends, LAMBDA x : TypeOf(x) = k)],
     updaters |-> backends,
     updates  |-> <<>>,
     wallets  |-> reportedBy(<<>>, backends),
     feed     |-> <<>>,
     term     |-> FALSE,
     lock     |-> ""]

InitManager ==
    /\ pc = "manager"
    /\ AbiIdle
    /\ iterKind = "" /\ iterBase = <<>> /\ iterPath = <<>> /\ iterCalls = <<>>
    /\ textData = <<>> /\ textRes = <<>>
    /\ held \in [BackendNames -> UNION {Arrangements(Pool(b)) : b \in BackendNames}]
    /\ \A b \in BackendNames : RangeOf(held[b]) \subseteq Pool(b)
    /\ am = NewManager(<<"ledger">>)
    /\ updateLoop = [pc |-> "select", event |-> NoEvent, backend |-> "", caller |-> 0,
                     before |-> <<>>, closed |-> {}]
    /\ callers = [c \in Callers |-> [op |-> "", backend |-> "", pc |-> "idle", done |-> FALSE]]
    /\ received = <<>>

\* a backend emits event to every subscription the manager holds at it
Emit(backend, event) ==
    LET n == Subscriptions(backend)
    IN  /\ Len(am.updates) + n <= managerSubBufferSize
        /\ Len(received) + Len(am.updates) + n <= MaxEvents
        /\ am' = [am EXCEPT !.updates = @ \o Copies(event, n)]

\* a wallet is plugged in or its key file appears
WalletArrives(backend, wallet) ==
    /\ wallet \in Pool(backend) \ RangeOf(held[backend])
    /\ held' = [held EXCEPT ![backend] = Append(@, wallet)]
    /\ Emit(backend, WalletEvent(wallet, "WalletArrived"))
    /\ UNCHANGED <<updateLoop, callers, received, besideManager>>

\* a wallet a backend holds is opened
WalletIsOpened(backend, wallet) ==
    /\ wallet \in RangeOf(held[backend])
    /\ Subscriptions(backend) > 0
    /\ Emit(backend, WalletEvent(wallet, "WalletOpened"))
    /\ UNCHANGED <<held, updateLoop, callers, received, besideManager>>

\* a wallet is unplugged or its key file is removed
WalletDeparts(backend, wallet) ==
    /\ wallet \in RangeOf(held[backend])
    /\ held' = [held EXCEPT ![backend] = SelectSeq(@, LAMBDA x : x # wallet)]
    /\ Emit(backend, WalletEvent(wallet, "WalletDropped"))
    /\ UNCHANGED <<updateLoop, callers, received, besideManager>>

\* the switch of the updates case, under am.lock
applyEvent(wallets, event) ==
    CASE event.Kind = "WalletArrived" -> merge(wallets, <<event.Wallet>>)
      [] event.Kind = "WalletDropped" -> drop(wallets, <<event.Wallet>>)
      [] OTHER -> wallets

\* case event := <-am.updates, up to am.lock.Unlock()
LoopEvent ==
    /\ updateLoop.pc = "select"
    /\ am.updates # <<>>
    /\ LET event == Head(am.updates)
       IN  /\ am' = [am EXCEPT !.updates = Tail(@),
                               !.wallets = applyEvent(@, event)]
           /\ updateLoop' = [updateLoop EXCEPT !.pc = "send", !.event = event,
                                               !.before = am.wallets]
           /\ received' = Append(received, event)
    /\ UNCHANGED <<callers, held, besideManager>>

\* am.feed.Send(event), and back to the select
LoopSend ==
    /\ updateLoop.pc = "send"
    /\ am' = [am EXCEPT !.feed = Send(@, updateLoop.event)]
    /\ updateLoop' = LoopAt("select")
    /\ UNCHANGED <<callers, held, received, besideManager>>

\* case event := <-am.newBackends, up to the merge of backend.Wallets()
LoopNewBackend(c) ==
    /\ updateLoop.pc = "select"
    /\ callers[c].pc = "sending" /\ callers[c].op = "AddBackend"
    /\ am' = [am EXCEPT !.lock = "update",
                        !.wallets = merge(@, held[callers[c].backend])]
    /\ updateLoop' = [updateLoop EXCEPT !.pc = "subscribe",
                                        !.backend = callers[c].backend,
                                        !.caller = c]
    /\ callers' = [callers EXCEPT ![c].pc = "waiting"]
    /\ UNCHANGED <<held, received, besideManager>>

\* backend.Subscribe(am.updates), the append to am.backends[kind], the unlock
\* and close(event.processed)
LoopSubscribe ==
    /\ updateLoop.pc = "subscribe"
    /\ am' = [am EXCEPT !.updaters = Append(@, updateLoop.backend),
                        !.backends[TypeOf(updateLoop.backend)] = Append(@, updateLoop.backend),
                        !.lock = ""]
    /\ callers' = [callers EXCEPT ![updateLoop.caller].done = TRUE]
    /\ updateLoop' = LoopAt("select")
    /\ UNCHANGED <<held, received, besideManager>>

\* case errc := <-am.quit, and w.Close() for every cached wallet
LoopQuit(c) ==
    /\ updateLoop.pc = "select"
    /\ callers[c].pc = "sending" /\ callers[c].op = "Close"
    /\ updateLoop' = [updateLoop EXCEPT !.pc = "answer", !.caller = c,
                                        !.closed = RangeOf(am.wallets)]
    /\ callers' = [callers EXCEPT ![c].pc = "waiting"]
    /\ UNCHANGED <<am, held, received, besideManager>>

\* errc <- nil, which Close receives and returns; close(am.term); return, and
\* the deferred function unsubscribes from every backend
LoopAnswer ==
    /\ updateLoop.pc = "answer"
    /\ callers' = [callers EXCEPT ![updateLoop.caller].pc = "returned"]
    /\ am' = [am EXCEPT !.term = TRUE, !.updaters = <<>>]
    /\ updateLoop' = LoopAt("terminated")
    /\ UNCHANGED <<held, received, besideManager>>

\* am.AddBackend(backend), up to the send on am.newBackends
CallAddBackend(c, backend) ==
    /\ callers[c].pc = "idle"
    /\ callers' = [callers EXCEPT ![c] = [op |-> "AddBackend", backend |-> backend,
                                          pc |-> "sending", done |-> FALSE]]
    /\ UNCHANGED <<am, updateLoop, held, received, besideManager>>

\* <-done, and AddBackend returns
AddBackendReturns(c) ==
    /\ callers[c].pc = "waiting" /\ callers[c].op = "AddBackend"
    /\ callers[c].done
    /\ callers' = [callers EXCEPT ![c].pc = "returned"]
    /\ UNCHANGED <<am, updateLoop, held, received, besideManager>>

\* am.Close(), up to the send on am.quit
CallClose(c) ==
    /\ callers[c].pc = "idle"
    /\ callers' = [callers EXCEPT ![c] = [op |-> "Close", backend |-> "",
                                          pc |-> "sending", done |-> FALSE]]
    /\ UNCHANGED <<am, updateLoop, held, received, besideManager>>

\* am.Wallets(), called where the read lock can be taken: a copy of the cache
Wallets == [i \in 1..Len(am.wallets) |-> am.wallets[i]]

LoopStep ==
    \/ LoopEvent
    \/ LoopSend
    \/ \E c \in Callers : LoopNewBackend(c)
    \/ LoopSubscribe
    \/ \E c \in Callers : LoopQuit(c)
    \/ LoopAnswer

NextManager ==
    \/ \E backend \in BackendNames : \E wallet \in Pool(backend) :
          WalletArrives(backend, wallet)
    \/ \E backend \in BackendNames : \E wallet \in Pool(backend) :
          WalletIsOpened(backend, wallet)
    \/ \E backend \in BackendNames : \E wallet \in Pool(backend) :
          WalletDeparts(backend, wallet)
    \/ LoopEvent
    \/ LoopSend
    \/ \E c \in Callers : LoopNewBackend(c)
    \/ LoopSubscribe
    \/ \E c \in Callers : LoopQuit(c)
    \/ LoopAnswer
    \/ \E c \in Callers : CallAddBackend(c, "keystore")
    \/ \E c \in Callers : AddBackendReturns(c)
    \/ \E c \in Callers : CallClose(c)

SpecManager == InitManager /\ [][NextManager]_vars

\* the scheduler runs every goroutine that can take a step
SpecManagerFair ==
    /\ SpecManager
    /\ WF_vars(LoopStep)
    /\ \A c \in Callers : WF_vars(AddBackendReturns(c))

(***************************************************************************)
(* Claims about the struct field names of a tuple.                         *)
(***************************************************************************)
\* the field names of tuple t before its i-th
FieldsBefore(t, i) == {t.TupleFields[j] : j \in 1..(i - 1)}

\* in t and in every type inside t, the field names of a tuple are pairwise
\* distinct, and each is the camel-cased raw name where no earlier field has
\* taken it and a name no earlier field has taken otherwise
RECURSIVE FieldNamesResolved(_)
FieldNamesResolved(t) ==
    /\ \A i, j \in DOMAIN t.TupleFields : i # j => t.TupleFields[i] # t.TupleFields[j]
    /\ \A i \in DOMAIN t.TupleFields :
          /\ t.TupleFields[i] \notin FieldsBefore(t, i)
          /\ ToCamelCase(t.TupleRawNames[i]) \notin FieldsBefore(t, i)
                => t.TupleFields[i] = ToCamelCase(t.TupleRawNames[i])
    /\ \A i \in DOMAIN t.Elem : FieldNamesResolved(t.Elem[i])
    /\ \A i \in DOMAIN t.TupleElems : FieldNamesResolved(t.TupleElems[i])

\* C30: distinct tuple field names.  In every tuple Type NewType returns,
\* the struct field names of the components are pairwise distinct, also
\* where several component names camel-case to one identifier:
\* ResolveNameConflict returns the raw name when it is unused and otherwise
\* a name that is not in use, and it comes to an end.
C30_DistinctFieldNames ==
    (pc = "parsed" /\ typeRes.err = "") => FieldNamesResolved(typeRes.typ)

\* a parsed tuple of three components whose names all camel-case to names in
\* use: the third had to pass the suffix 0
C30_Witness ==
    /\ pc = "parsed" /\ typeRes.err = ""
    /\ \E t \in {typeRes.typ} \cup {typeRes.typ.Elem[i] : i \in DOMAIN typeRes.typ.Elem} :
          /\ Len(t.TupleFields) = 3
          /\ t.TupleFields[3] = ToCamelCase(t.TupleRawNames[3]) \o Itoa(1)
          /\ t.TupleFields[1] = ToCamelCase(t.TupleRawNames[3]) \o Itoa(0)

(***************************************************************************)
(* The derivation path iterators.  A DerivationPath is a []uint32; a      *)
(* uint32 is a pair <<high, low>> of 16-bit halves, so that it keeps its   *)
(* width.  A slice is named by the array it points into.                   *)
(***************************************************************************)
\* components of a base path
MaxPathLen == 3
\* calls of the function an iterator constructor returned
MaxIterCalls == 3

Half == 65536

\* x + 1 and x - 1 of a uint32
inc32(x) ==
    IF x[2] = Half - 1 THEN <<(x[1] + 1) % Half, 0>> ELSE <<x[1], x[2] + 1>>

dec32(x) ==
    IF x[2] = 0 THEN <<(x[1] + Half - 1) % Half, Half - 1>> ELSE <<x[1], x[2] - 1>>

\* the components of the model: 0, 1, 0x80000000 (hardened 0) and 0xffffffff
Components == {<<0, 0>>, <<0, 1>>, <<32768, 0>>, <<Half - 1, Half - 1>>}

BasePaths == UNION {[1..n -> Components] : n \in 0..MaxPathLen}

Panic == [panic |-> TRUE, path |-> <<>>]

\* a slip of DefaultIterator: the path is not set back by one
DefaultIteratorNotSetBack(base) ==
    IF Len(base) = 0 THEN Panic ELSE [panic |-> FALSE, path |-> base]

\* DefaultIterator(base): the slice path the closure starts with, a copy of
\* base in an array of its own; path[len(path)-1] of an empty path panics
DefaultIterator(base) ==
    IF Len(base) = 0 THEN Panic
    ELSE [panic |-> FALSE, path |-> [base EXCEPT ![Len(base)] = dec32(@)]]

\* the closure DefaultIterator returns: path[len(path)-1]++
defaultNext(path) == [path EXCEPT ![Len(path)] = inc32(@)]

\* LedgerLiveIterator(base); path[2] of a path of fewer than three components
\* panics
LedgerLiveIterator(base) ==
    IF Len(base) < 3 THEN Panic
    ELSE [panic |-> FALSE, path |-> [base EXCEPT ![3] = dec32(@)]]

\* the closure LedgerLiveIterator returns: path[2]++
ledgerLiveNext(path) == [path EXCEPT ![3] = inc32(@)]

IterKinds == {"DefaultIterator", "LedgerLiveIterator"}

InitIter ==
    /\ pc = "construct"
    /\ AbiIdle
    /\ am = <<>> /\ updateLoop = <<>> /\ callers = <<>> /\ held = <<>> /\ received = <<>>
    /\ textData = <<>> /\ textRes = <<>>
    /\ iterKind \in IterKinds
    /\ iterBase \in BasePaths
    /\ iterPath = <<>>
    /\ iterCalls = <<>>

besideIter == <<typeVars, codecVars, intVars, nameVars, mapVars, mgrVars, textVars>>

\* next := DefaultIterator(base) or next := LedgerLiveIterator(base)
Construct ==
    /\ pc = "construct"
    /\ \E r \in {IF iterKind = "DefaultIterator" THEN DefaultIterator(iterBase)
                 ELSE LedgerLiveIterator(iterBase)} :
          /\ pc' = IF r.panic THEN "panic" ELSE "iterating"
          /\ iterPath' = r.path
    /\ UNCHANGED <<iterKind, iterBase, iterCalls, besideIter>>

\* next(): the closure steps its path and returns the slice path itself; the
\* history keeps the value the result had at the return
CallNext ==
    /\ pc = "iterating"
    /\ Len(iterCalls) < MaxIterCalls
    /\ iterPath' = IF iterKind = "DefaultIterator" THEN defaultNext(iterPath)
                   ELSE ledgerLiveNext(iterPath)
    /\ iterCalls' = Append(iterCalls, [array |-> "path", was |-> iterPath'])
    /\ UNCHANGED <<pc, iterKind, iterBase, besideIter>>

NextIter == Construct \/ CallNext

SpecIter == InitIter /\ [][NextIter]_vars

\* what a slice holds now: the contents of the array it points into
Holds(slice) == IF slice.array = "path" THEN iterPath ELSE iterBase

(***************************************************************************)
(* Claims about the iterators.                                             *)
(***************************************************************************)
\* (x + n) mod 2^32 for a small n
plus32(x, n) == <<(x[1] + (x[2] + n) \div Half) % Half, (x[2] + n) % Half>>

\* C23: DefaultIterator sequence.  For every base path with last component
\* b, the k-th call of the function DefaultIterator(base) returned returns
\* base with its last component replaced by (b + k - 1) mod 2^32 and every
\* other component unchanged; the first call returns base itself, also for
\* b = 0.
C23_DefaultSequence ==
    (pc = "iterating" /\ iterKind = "DefaultIterator") =>
        /\ \A k \in DOMAIN iterCalls :
              iterCalls[k].was =
                  [iterBase EXCEPT ![Len(iterBase)] = plus32(@, k - 1)]
        /\ Len(iterCalls) >= 1 => iterCalls[1].was = iterBase

\* three calls on a base that ends in 0, and on one that ends in 0xffffffff:
\* both wrap around
C23_Witness ==
    /\ pc = "iterating" /\ iterKind = "DefaultIterator"
    /\ Len(iterCalls) = 3
    /\ Len(iterBase) >= 2
    /\ iterBase[Len(iterBase)] \in {<<0, 0>>, <<Half - 1, Half - 1>>}
    /\ iterCalls[1].was = iterBase /\ iterCalls[3].was # iterBase

\* C29: iterator results are independent.  A path returned by the k-th call
\* of a DefaultIterator or LedgerLiveIterator function still has the value it
\* was returned with after every later call, and the base path is as it was
\* handed in.
C29_ResultsIndependent ==
    pc = "iterating" =>
        \A k \in DOMAIN iterCalls : Holds(iterCalls[k]) = iterCalls[k].was

(***************************************************************************)
(* Claims about the account manager.                                       *)
(***************************************************************************)
\* non-decreasing URL order: scheme first, then path
SortedByURL(slice) ==
    \A i, j \in DOMAIN slice : i < j => Cmp(slice[i].URL, slice[j].URL) <= 0

\* C26: sorted cache.  In every reachable state of the Manager, after
\* NewManager and after any sequence of WalletArrived, WalletOpened and
\* WalletDropped events and AddBackend calls, the wallet cache is in
\* non-decreasing URL order (scheme, then path), and so is the slice Wallets()
\* returns wherever it can take the read lock.
C26_SortedCache ==
    pc = "manager" =>
        /\ SortedByURL(am.wallets)
        /\ am.lock = "" => SortedByURL(Wallets)

\* a cache of wallets of two schemes, the keystore's merged in front of the
\* ledger's by AddBackend, read after an event was handled
C26_Witness ==
    /\ pc = "manager" /\ am.lock = ""
    /\ Len(Wallets) >= 2
    /\ Wallets[1].URL.Scheme = S_keystore /\ Wallets[Len(Wallets)].URL.Scheme = S_ledger
    /\ \E c \in Callers : callers[c].op = "AddBackend" /\ callers[c].pc = "returned"
    /\ am.feed # <<>>

\* how often a wallet is in a slice
CountOf(wallet, slice) == Cardinality({i \in DOMAIN slice : slice[i] = wallet})

\* the cache has been updated for the event the loop is about to forward
Reflected(event) ==
    CASE event.Kind = "WalletArrived" -> CountOf(event.Wallet, am.wallets) > 0
      [] event.Kind = "WalletDropped" ->
            \/ CountOf(event.Wallet, updateLoop.before) = 0
            \/ CountOf(event.Wallet, am.wallets) < CountOf(event.Wallet, updateLoop.before)
      [] OTHER -> am.wallets = updateLoop.before

\* C27: event forwarding.  Every wallet event the update loop takes from
\* am.updates is sent to the feed exactly once and in the order received: the
\* feed is the sequence of the events received, but for the one the loop is
\* about to send, and that one is sent with the cache updated for it and the
\* write lock released.
C27_EventForwarding ==
    pc = "manager" =>
        IF updateLoop.pc = "send"
        THEN /\ received = Append(am.feed, updateLoop.event)
             /\ am.lock = ""
             /\ Reflected(updateLoop.event)
        ELSE am.feed = received

\* an arrival and the departure of the same wallet have been forwarded, in this
\* order, and the loop is back at its select with wallets left in the cache
C27_Witness ==
    /\ pc = "manager"
    /\ Len(am.feed) >= 2
    /\ am.feed[1].Kind = "WalletArrived" /\ am.feed[2].Kind = "WalletDropped"
    /\ am.feed[1].Wallet = am.feed[2].Wallet
    /\ updateLoop.pc = "select"
    /\ am.wallets # <<>>

\* slice without its first element of wallet's URL
WithoutWallet(slice, wallet) ==
    LET at == {i \in DOMAIN slice : slice[i].URL = wallet.URL}
    IN  IF at = {} THEN slice
        ELSE LET n == CHOOSE i \in at : \A j \in at : i <= j
             IN  SubSeq(slice, 1, n - 1) \o SubSeq(slice, n + 1, Len(slice))

\* C25: drop removes only the specified wallet.  After the manager has
\* processed a WalletDropped event for wallet w, the cache is the previous
\* cache with w removed if w was in it and the previous cache itself if no
\* cached wallet has w's URL; no wallet of another URL is removed.
C25_DropOnlySpecified ==
    (pc = "manager" /\ updateLoop.pc = "send" /\ updateLoop.event.Kind = "WalletDropped")
        => am.wallets = WithoutWallet(updateLoop.before, updateLoop.event.Wallet)

\* what integrating a backend leaves behind: its wallets in the cache, the
\* backend in am.backends under its type, and a subscription at it
Integrated(backend) ==
    /\ RangeOf(held[backend]) \subseteq RangeOf(am.wallets)
    /\ backend \in RangeOf(am.backends[TypeOf(backend)])
    /\ backend \in RangeOf(am.updaters)

\* the update loop runs and waits in its select with no wallet event queued
Quiet == updateLoop.pc = "select" /\ am.updates = <<>> /\ ~am.term

\* C22: AddBackend integration.  When AddBackend(b) returns, every wallet
\* b.Wallets() reports is in the wallet cache, b is listed by Backends(type of
\* b) and the manager is subscribed to b's wallet events, whatever wallet
\* events and other callers came in between; stated for the returns at which
\* the loop is at rest, where no event is on its way to the cache.
C22_AddBackendIntegrated ==
    [][\A c \in Callers :
          (AddBackendReturns(c) /\ Quiet) => Integrated(callers[c].backend)]_vars

\* C28: no caller gets stuck after termination.  Once the update loop has
\* terminated through Close and am.term is closed, every call of AddBackend
\* or Close that is waiting to hand its request to the loop, issued before or
\* after the termination, eventually returns.
C28_CallersReturn ==
    \A c \in Callers :
        (am.term /\ callers[c].pc = "sending") ~> (callers[c].pc = "returned")

(***************************************************************************)
(* TextHash and TextAndHash, with the legacy                               *)
(* Keccak-256 of sha3.NewLegacyKeccak256: a state of 25 lanes of 64 bits,  *)
(* lane x + 5y at column x and row y, a bit being TRUE or FALSE.           *)
(***************************************************************************)
\* bytes of a message beyond which the model does not go, but for one long
\* message
MaxTextLen == 12

\* the rotation of each lane in the step rho
RhoOffsets ==
    << 0,  1, 62, 28, 27,
      36, 44,  6, 55, 20,
       3, 10, 43, 25, 39,
      41, 45, 15, 21,  8,
      18,  2, 61, 56, 14>>

\* the bits set in the constant of each round of the step iota
RoundConstants ==
    <<{0},
      {1, 7, 15},
      {1, 3, 7, 15, 63},
      {15, 31, 63},
      {0, 1, 3, 7, 15},
      {0, 31},
      {0, 7, 15, 31, 63},
      {0, 3, 15, 63},
      {1, 3, 7},
      {3, 7},
      {0, 3, 15, 31},
      {1, 3, 31},
      {0, 1, 3, 7, 15, 31},
      {0, 1, 3, 7, 63},
      {0, 3, 7, 15, 63},
      {0, 1, 15, 63},
      {1, 15, 63},
      {7, 63},
      {1, 3, 15},
      {1, 3, 31, 63},
      {0, 7, 15, 31, 63},
      {7, 15, 63},
      {0, 31},
      {3, 15, 31, 63}>>

\* a value written as a function, held as the tuple of its values
held64(f) == f \o <<>>

\* theta: the parity of each column, C[x][z]
thetaC(A) ==
    held64([x \in 1..5 |-> held64([z \in 1..64 |->
        ((A[x][z] # A[x + 5][z]) # (A[x + 10][z] # A[x + 15][z])) # A[x + 20][z]])])

\* theta: D[x][z] = C[x-1][z] xor C[x+1][z-1]
thetaD(C) ==
    held64([x \in 1..5 |-> held64([z \in 1..64 |->
        C[((x + 3) % 5) + 1][z] # C[(x % 5) + 1][((z + 62) % 64) + 1]])])

\* theta: every lane of column x is XORed with D[x]
theta(A, D) ==
    held64([l \in 1..25 |-> held64([z \in 1..64 |-> A[l][z] # D[((l - 1) % 5) + 1][z]])])

\* rho and pi: lane (x, y), rotated by its offset, goes to (y, 2x + 3y)
rhoPi(T) ==
    held64([l \in 1..25 |->
        LET x == (l - 1) % 5
            y == (l - 1) \div 5
            from == ((x + 3 * y) % 5) + 5 * x + 1
        IN  held64([z \in 1..64 |-> T[from][((z + 63 - RhoOffsets[from]) % 64) + 1]])])

\* chi and iota: each bit is XORed with (not the next lane's and the one
\* after's) of its row, and lane (0, 0) with the round constant
chiIota(B, rc) ==
    held64([l \in 1..25 |->
        LET x == (l - 1) % 5
            row == 5 * ((l - 1) \div 5)
        IN  held64([z \in 1..64 |->
               (B[l][z] # (~B[row + ((x + 1) % 5) + 1][z] /\ B[row + ((x + 2) % 5) + 1][z]))
                  # (l = 1 /\ (z - 1) \in rc)])])

\* one round of Keccak-f[1600]
keccakRound(A, rc) == chiIota(rhoPi(theta(A, thetaD(thetaC(A)))), rc)

\* Keccak-f[1600]: the 24 rounds, from round r on; each round's state is
\* computed before the next round starts
RECURSIVE keccakF(_, _)
keccakF(A, r) ==
    IF r > 24 THEN A
    ELSE CHOOSE out \in {keccakF(next, r + 1) :
                            next \in {keccakRound(A, RoundConstants[r])}} : TRUE

\* the rate of Keccak-256 in bytes
Rate == 136

\* the padding of the legacy Keccak: 0x01, zeros, and 0x80 into the last byte
\* of the block
padLegacy(msg) ==
    LET fill == Rate - 1 - (Len(msg) % Rate)
    IN  IF fill = 0 THEN msg \o <<129>>
        ELSE msg \o <<1>> \o [i \in 1..(fill - 1) |-> 0] \o <<128>>

\* a block of Rate bytes XORed into the first 17 lanes, little-endian
xorBlock(A, padded, at) ==
    held64([l \in 1..25 |-> held64([z \in 1..64 |->
        IF l <= Rate \div 8
        THEN A[l][z] #
             ((padded[at + 8 * (l - 1) + ((z - 1) \div 8)] \div (2 ^ ((z - 1) % 8))) % 2 = 1)
        ELSE A[l][z]])])

\* a block is XORed into the state and the state is permuted; then the next
RECURSIVE absorb(_, _, _)
absorb(A, padded, at) ==
    IF at > Len(padded) THEN A
    ELSE CHOOSE out \in {absorb(next, padded, at + Rate) :
                            next \in {keccakF(xorBlock(A, padded, at), 1)}} : TRUE

\* byte j (from 0) of a state, little-endian within its lane
stateByte(A, j) ==
    LET bit(k) == IF A[(j \div 8) + 1][8 * (j % 8) + k + 1] THEN 2 ^ k ELSE 0
    IN  bit(0) + bit(1) + bit(2) + bit(3) + bit(4) + bit(5) + bit(6) + bit(7)

\* the first 32 bytes of a state
squeeze(A) == [j \in 1..32 |-> stateByte(A, j - 1)]

\* hasher := sha3.NewLegacyKeccak256(); hasher.Write(msg); hasher.Sum(nil)
Keccak256(msg) ==
    squeeze(absorb([l \in 1..25 |-> [z \in 1..64 |-> FALSE]], padLegacy(msg), 1))

\* "\x19Ethereum Signed Message:\n"
SignedMessagePrefix ==
    <<25, 69, 116, 104, 101, 114, 101, 117, 109, 32, 83, 105, 103, 110, 101, 100, 32,
      77, 101, 115, 115, 97, 103, 101, 58, 10>>

\* the verb %d of fmt.Sprintf for n >= 0, as bytes
RECURSIVE formatDecimal(_)
formatDecimal(n) ==
    IF n < 10 THEN <<48 + n>> ELSE formatDecimal(n \div 10) \o <<48 + (n % 10)>>

\* a slip of TextAndHash: the length goes in as one byte, not in decimal
TextAndHashRawLength(data) ==
    LET msg == SignedMessagePrefix \o <<Len(data)>> \o data
    IN  [hash |-> Keccak256(msg), msg |-> msg]

\* TextAndHash(data): the hash and the message hashed
TextAndHash(data) ==
    LET msg == SignedMessagePrefix \o formatDecimal(Len(data)) \o data
    IN  [hash |-> Keccak256(msg), msg |-> msg]

\* TextHash(data): hash, _ := TextAndHash(data); return hash
TextHash(data) == TextAndHash(data).hash

\* []byte("Hello Joe")
HelloJoe == <<72, 101, 108, 108, 111, 32, 74, 111, 101>>

\* the messages of the model: Hello Joe, runs of one byte up to MaxTextLen, and
\* a run long enough for a length of three digits and a second block
TextInputs ==
    {HelloJoe, [i \in 1..120 |-> 97]}
    \cup {[i \in 1..n |-> fill] : n \in 0..MaxTextLen, fill \in {0, 255}}

InitText ==
    /\ pc = "text"
    /\ AbiIdle
    /\ am = <<>> /\ updateLoop = <<>> /\ callers = <<>> /\ held = <<>> /\ received = <<>>
    /\ iterKind = "" /\ iterBase = <<>> /\ iterPath = <<>> /\ iterCalls = <<>>
    /\ textData \in TextInputs
    /\ textRes = [TextHash |-> <<>>, TextAndHash |-> <<>>]

besideText == <<pc, typeVars, codecVars, intVars, nameVars, mapVars, mgrVars, iterVars>>

\* hash := TextHash(data)
DoTextHash ==
    /\ pc = "text"
    /\ textRes.TextHash = <<>>
    /\ textRes' = [textRes EXCEPT !.TextHash = <<TextHash(textData)>>]
    /\ UNCHANGED <<textData, besideText>>

\* hash, msg := TextAndHash(data)
DoTextAndHash ==
    /\ pc = "text"
    /\ textRes.TextAndHash = <<>>
    /\ textRes' = [textRes EXCEPT !.TextAndHash = <<TextAndHash(textData)>>]
    /\ UNCHANGED <<textData, besideText>>

NextText == DoTextHash \/ DoTextAndHash

SpecText == InitText /\ [][NextText]_vars

(***************************************************************************)
(* Claims about the text hash.                                             *)
(***************************************************************************)
\* hexutil.MustDecode("0xa080337ae51c4e064c189e113edd0ba391df9206e2f49db658bb32cf2911730b")
HelloJoeHash ==
    <<160, 128, 51, 122, 229, 28, 78, 6, 76, 24, 158, 17, 62, 221, 11, 163,
      145, 223, 146, 6, 226, 244, 157, 182, 88, 187, 50, 207, 41, 17, 115, 11>>

\* C24: TextHash.  For every message data, TextHash(data) is the keccak256
\* hash of "\x19Ethereum Signed Message:\n", the decimal length of data and
\* data, and it is the hash TextAndHash(data) returns, whose second result is
\* that prefixed message; for "Hello Joe" the hash is 0xa080337a...2911730b.
C24_TextHash ==
    (pc = "text" /\ textRes.TextHash # <<>> /\ textRes.TextAndHash # <<>>) =>
        /\ textRes.TextAndHash[1].msg
              = SignedMessagePrefix \o formatDecimal(Len(textData)) \o textData
        /\ \E h \in {Keccak256(textRes.TextAndHash[1].msg)} :
              /\ textRes.TextHash[1] = h
              /\ textRes.TextAndHash[1].hash = h
        /\ textData = HelloJoe => textRes.TextHash[1] = HelloJoeHash

\* both functions have hashed Hello Joe
C24_Witness ==
    /\ pc = "text" /\ textData = HelloJoe
    /\ textRes.TextHash # <<>> /\ textRes.TextAndHash # <<>>
    /\ textRes.TextHash[1] = HelloJoeHash

=============================================================================
